---- MODULE Spec2Model ----
(***************************************************************************)
(* A model of app.py (North Sails social media intelligence API):          *)
(*   - VKRateLimiter and the vk_rate_limit retrying wrapper,               *)
(*   - the VKClient operations the wrapper is applied to,                  *)
(*   - BackupManager and NotionClient.safe_update_with_backup,             *)
(*   - keyword discovery, brand relevance and the scoring loop of the      *)
(*     scans (SocialMediaScanner), the scan as a whole, and the recovery   *)
(*     routes list_backups and restore_backup.                             *)
(*                                                                         *)
(* Time is counted in milliseconds.  The limiter stores the timestamps     *)
(* last_request[k] and reset_time[k] and only ever reads them through the  *)
(* differences now - last_request[k] and now - reset_time[k]; the model    *)
(* keeps these differences (the age of each timestamp), advanced by every  *)
(* sleep, and stops counting an age one step past the threshold it is      *)
(* compared with.  Never stands for a key that is not in the dictionary.   *)
(***************************************************************************)
EXTENDS Integers, Sequences, FiniteSets, TLC

\* ---------------------------------------------------------------- constants
QuotaPerMinute == 100
WindowMs == 60000
QuotaWaitMs == 60000
MinGapMs == 350
CooldownMs == 100
BackoffBaseMs == 5000
BackoffCapMs == 300000
ServerWaitMs == 2000
FlatWaitMs == 1000
DefaultRetries == 3
InfoRetries == 3
PostsRetries == 5

\* ------------------------------------------------------------------- bounds
\* wrapper calls, raising invocations and idle gaps of a short run
MaxCalls == 3
MaxFails == 3
MaxIdles == 1
\* recorded calls and time steps of a run of the limiter on its own
MaxRecords == 3
MaxTicks == 3
\* the same for two callers sharing the limiter
ConcCalls == 2
ConcFails == 1
ConcIdles == 1
\* raising invocations and idle gaps of a run of any number of calls of one
\* operation, long enough to use up the per-minute quota
QuotaFails == 1
QuotaIdles == 1

\* seconds and safe_update_with_backup calls of a run of the backup store
MaxClock == 8
MaxBackups == 2
\* scans of a run, and posts of a batch handed to discovery and scoring
MaxScans == 1
MaxBatch == 3
\* seconds of a run of the recovery routes
RecoverySeconds == 2
RetryLimit == 3

Never == -1
Callers == {1, 2}
Funcs == {"get_community_info", "get_community_posts", "func"}
\* what requests.get does inside a VKClient operation
Responses == {"200 response", "429", "raises 429", "raises timeout"}
\* what str(e).lower() of an error raised by a wrapped operation contains
ErrorTexts == {{"429"}, {"rate limit"}, {"502"}, {"503", "429"}, {}}
\* how long a caller stays outside the wrapper between two calls
IdleSet == {50, 250, WindowMs + 1}

VARIABLES
    last_request,   \* [Funcs -> age of limiter.last_request[k], or Never]
    request_count,  \* [Funcs -> limiter.request_count[k]] (0 when absent)
    reset_time,     \* [Funcs -> age of limiter.reset_time[k], or Never]
    permitted,      \* [Funcs -> a check has permitted and no call was recorded since]
    call,           \* [Callers -> the frame of the wrapper call in progress]
    funcs,          \* the decorated operations the callers call
    callsLeft,      \* wrapper calls that may still start
    failsLeft,      \* raising invocations that may still happen
    idlesLeft,      \* idle gaps that may still happen
    clock,          \* int(datetime.now().timestamp()): the time in whole seconds
    backup_data,    \* BackupManager.backup_data: the entries added so far
    files,          \* [backup_id -> the content of /tmp/northsails_backup_<id>.json]
    update,         \* the frame of the safe_update_with_backup call in progress
    all_raw_posts,  \* the posts a scan has fetched
    trending_data,  \* what extract_keywords_from_content returned to the scan
    collected_posts,\* the posts the scoring loop has kept so far
    scan,           \* the frame of the scan in progress
    response        \* what the recovery route called last has answered

limiterVars == <<last_request, request_count, reset_time>>
budgetVars == <<funcs, callsLeft, failsLeft, idlesLeft>>
\* what only can_make_request and the bookkeeping change
rest == <<permitted, funcs, callsLeft, failsLeft, idlesLeft>>
backupVars == <<clock, backup_data, files, update>>
scanVars == <<all_raw_posts, trending_data, collected_posts, scan>>
\* the variables outside the rate limiter and its callers
elsewhere == <<backupVars, scanVars, response>>
\* the variables of the rate limiter and its callers
limiting == <<last_request, request_count, reset_time, permitted, call,
              funcs, callsLeft, failsLeft, idlesLeft>>
vars == <<last_request, request_count, reset_time, permitted, call,
          funcs, callsLeft, failsLeft, idlesLeft,
          clock, backup_data, files, update,
          all_raw_posts, trending_data, collected_posts, scan, response>>

Min(a, b) == IF a < b THEN a ELSE b

RECURSIVE Pow2(_)
Pow2(n) == IF n = 0 THEN 1 ELSE 2 * Pow2(n - 1)

\* ------------------------------------------------------------ VKRateLimiter
\* an age after d more milliseconds, counted up to cap
Older(age, d, cap) == IF age = Never THEN Never ELSE Min(age + d, cap)

\* the limiter's timestamps after d milliseconds have passed
Elapse(d) ==
    /\ last_request' = [k \in Funcs |-> Older(last_request[k], d, MinGapMs)]
    /\ reset_time' = [k \in Funcs |-> Older(reset_time[k], d, WindowMs + 1)]

WindowExpired_at(age) == age = Never \/ age >= WindowMs

\* line 88: the key has no window yet, or its window is over a minute old
WindowExpired(age) == age = Never \/ age > WindowMs

QuotaReached_above(count) == count > QuotaPerMinute

\* line 93
QuotaReached(count) == count >= QuotaPerMinute

\* line 98
TooSoon(age) == age # Never /\ age < MinGapMs

RemainingGap_whole(age) == MinGapMs

\* line 99
RemainingGap(age) == MinGapMs - age

\* request_count[k] as can_make_request leaves it (lines 88-90)
CountAfterCheck(k) ==
    IF WindowExpired(reset_time[k]) THEN 0 ELSE request_count[k]

\* the pair can_make_request(k) returns (lines 93-101)
CheckResult(k) ==
    IF QuotaReached(CountAfterCheck(k))
    THEN [can_request |-> FALSE, wait_time |-> QuotaWaitMs]
    ELSE IF TooSoon(last_request[k])
         THEN [can_request |-> FALSE, wait_time |-> RemainingGap(last_request[k])]
         ELSE [can_request |-> TRUE, wait_time |-> 0]

can_make_request_recording(k) ==
    /\ request_count' = [request_count EXCEPT ![k] =
                           CountAfterCheck(k) + IF CheckResult(k).can_request THEN 1 ELSE 0]
    /\ reset_time' = [reset_time EXCEPT
                        ![k] = IF WindowExpired(reset_time[k]) THEN 0 ELSE @]
    /\ permitted' = [permitted EXCEPT ![k] = CheckResult(k).can_request]
    /\ last_request' = [last_request EXCEPT
                          ![k] = IF CheckResult(k).can_request THEN 0 ELSE @]

\* the state change of can_make_request(k) (lines 88-90)
can_make_request(k) ==
    /\ request_count' = [request_count EXCEPT ![k] = CountAfterCheck(k)]
    /\ reset_time' = [reset_time EXCEPT
                        ![k] = IF WindowExpired(reset_time[k]) THEN 0 ELSE @]
    /\ permitted' = [permitted EXCEPT ![k] = CheckResult(k).can_request]
    /\ UNCHANGED last_request

\* lines 122-124: the wrapper's bookkeeping
Bookkeeping(k) ==
    /\ last_request' = [last_request EXCEPT ![k] = 0]
    /\ request_count' = [request_count EXCEPT ![k] = @ + 1]
    /\ permitted' = [permitted EXCEPT ![k] = FALSE]
    /\ UNCHANGED reset_time

\* ------------------------------------------------- the wrapped operations
\* What an invocation of a wrapped operation does: return a value or raise an
\* error whose lower-cased text contains the markers in text.
Returns(v) == [raised |-> FALSE, value |-> v, text |-> {}]
Raises(t) == [raised |-> TRUE, value |-> "", text |-> t]

\* VKClient.get_community_info, given what requests.get does
get_community_info(r) ==
    IF r = "200 response" THEN Returns("info") ELSE Returns("None")

\* VKClient.get_community_posts, given what requests.get does
get_community_posts(r) ==
    IF r = "200 response" THEN Returns("items") ELSE Returns("[]")

\* any other operation the decorator is applied to: it returns its result
\* or lets its error escape
FuncBehaviours == {Returns("result")} \cup {Raises(t) : t \in ErrorTexts}

\* the quota signals of the VK API: HTTP 429, or a raised rate-limit error
QuotaSignals == {"429", "raises 429"}

\* ------------------------------------------------- vk_rate_limit.wrapper
NoCall == [pc |-> "idle", func |-> "func", max_retries |-> 0, attempt |-> 0,
           can_request |-> FALSE, wait_time |-> 0, e |-> {}, result |-> "",
           signal |-> "", invocations |-> <<>>, sleeps |-> <<>>, denials |-> 0]

Off == [NoCall EXCEPT !.pc = "off"]

\* the retry budget each decorated operation is declared with
Budgets(f) ==
    CASE f = "get_community_info" -> {InfoRetries}
      [] f = "get_community_posts" -> {PostsRetries}
      [] OTHER -> {1, DefaultRetries}

\* line 135
IsRateLimit(text) ==
    "rate limit" \in text \/ "429" \in text \/ "too many requests" \in text

\* line 142
IsServerError(text) == "502" \in text \/ "503" \in text

\* line 137
RateLimitWait(attempt) == Min(BackoffCapMs, BackoffBaseMs * Pow2(attempt))

ServerErrorWait_flat(attempt) == ServerWaitMs

\* line 144
ServerErrorWait(attempt) == ServerWaitMs * (attempt + 1)

\* line 149
IsFinalAttempt(fr) == fr.attempt = fr.max_retries - 1

NextAttempt_unbounded(fr) == [fr EXCEPT !.attempt = @ + 1, !.pc = "check"]

\* the for loop of line 111 moving on: the next attempt, or line 155
NextAttempt(fr) ==
    IF fr.attempt + 1 < fr.max_retries
    THEN [fr EXCEPT !.attempt = @ + 1, !.pc = "check"]
    ELSE [fr EXCEPT !.attempt = @ + 1, !.pc = "returned", !.result = "None"]

\* a run that calls one operation only is finite without a budget of calls:
\* the quota and the ages bound it
Budgeted == Cardinality(funcs) > 1

Outside(c) == call[c].pc \in {"idle", "returned", "raised"}

\* a caller calls a decorated operation (lines 107-111)
Enter(c, f, m) ==
    /\ Outside(c)
    /\ f \in funcs
    /\ Budgeted => callsLeft > 0
    /\ callsLeft' = IF Budgeted THEN callsLeft - 1 ELSE callsLeft
    /\ call' = [call EXCEPT ![c] =
                  [NoCall EXCEPT !.pc = "check", !.func = f, !.max_retries = m]]
    /\ UNCHANGED <<limiterVars, permitted, funcs, failsLeft, idlesLeft, elsewhere>>

\* line 113
Check(c) ==
    /\ call[c].pc = "check"
    /\ can_make_request(call[c].func)
    /\ LET r == CheckResult(call[c].func) IN
       call' = [call EXCEPT ![c].can_request = r.can_request,
                            ![c].wait_time = r.wait_time,
                            ![c].pc = IF r.can_request THEN "track" ELSE "limited"]
    /\ UNCHANGED <<budgetVars, elsewhere>>

Limited_awake(c) ==
    /\ call[c].pc = "limited"
    /\ call' = [call EXCEPT ![c] = NextAttempt([@ EXCEPT !.denials = @ + 1])]
    /\ UNCHANGED <<limiterVars, rest, elsewhere>>

\* lines 115-118
Limited(c) ==
    /\ call[c].pc = "limited"
    /\ Elapse(call[c].wait_time)
    /\ call' = [call EXCEPT ![c] = NextAttempt([@ EXCEPT !.denials = @ + 1])]
    /\ UNCHANGED <<request_count, rest, elsewhere>>

\* lines 122-124
Track(c) ==
    /\ call[c].pc = "track"
    /\ Bookkeeping(call[c].func)
    /\ call' = [call EXCEPT ![c].pc = "invoke"]
    /\ UNCHANGED <<budgetVars, elsewhere>>

\* line 126, with what the operation did
Invoked(c, out, r) ==
    /\ failsLeft' = IF out.raised THEN failsLeft - 1 ELSE failsLeft
    /\ call' = [call EXCEPT
                  ![c].invocations = Append(@, [raised |-> out.raised, text |-> out.text]),
                  ![c].result = out.value,
                  ![c].e = out.text,
                  ![c].signal = r,
                  ![c].pc = IF out.raised THEN "except" ELSE "cooldown"]
    /\ UNCHANGED <<limiterVars, permitted, funcs, callsLeft, idlesLeft, elsewhere>>

InvokeInfo(c) ==
    /\ call[c].pc = "invoke"
    /\ call[c].func = "get_community_info"
    /\ \E r \in Responses :
         Invoked(c, get_community_info(r), r)

InvokePosts(c) ==
    /\ call[c].pc = "invoke"
    /\ call[c].func = "get_community_posts"
    /\ \E r \in Responses :
         Invoked(c, get_community_posts(r), r)

InvokeFunc(c) ==
    /\ call[c].pc = "invoke"
    /\ call[c].func = "func"
    /\ \E out \in FuncBehaviours :
         /\ out.raised => failsLeft > 0
         /\ Invoked(c, out, "")

\* lines 129-130
Cooldown(c) ==
    /\ call[c].pc = "cooldown"
    /\ Elapse(CooldownMs)
    /\ call' = [call EXCEPT ![c].pc = "returned"]
    /\ UNCHANGED <<request_count, rest, elsewhere>>

\* lines 135-140
RateLimitBackoff(c) ==
    /\ call[c].pc = "except"
    /\ IsRateLimit(call[c].e)
    /\ LET w == RateLimitWait(call[c].attempt) IN
       /\ Elapse(w)
       /\ call' = [call EXCEPT ![c] = NextAttempt([@ EXCEPT !.sleeps = Append(@, w)])]
    /\ UNCHANGED <<request_count, rest, elsewhere>>

\* lines 142-147
ServerErrorBackoff(c) ==
    /\ call[c].pc = "except"
    /\ ~IsRateLimit(call[c].e)
    /\ IsServerError(call[c].e)
    /\ LET w == ServerErrorWait(call[c].attempt) IN
       /\ Elapse(w)
       /\ call' = [call EXCEPT ![c] = NextAttempt([@ EXCEPT !.sleeps = Append(@, w)])]
    /\ UNCHANGED <<request_count, rest, elsewhere>>

\* lines 149-151
FinalError(c) ==
    /\ call[c].pc = "except"
    /\ ~IsRateLimit(call[c].e)
    /\ ~IsServerError(call[c].e)
    /\ IsFinalAttempt(call[c])
    /\ call' = [call EXCEPT ![c].pc = "raised"]
    /\ UNCHANGED <<limiterVars, rest, elsewhere>>

\* lines 152-153
FlatRetry(c) ==
    /\ call[c].pc = "except"
    /\ ~IsRateLimit(call[c].e)
    /\ ~IsServerError(call[c].e)
    /\ ~IsFinalAttempt(call[c])
    /\ Elapse(FlatWaitMs)
    /\ call' = [call EXCEPT ![c] = NextAttempt([@ EXCEPT !.sleeps = Append(@, FlatWaitMs)])]
    /\ UNCHANGED <<request_count, rest, elsewhere>>

\* a check of the limiter whose answer is not followed by a call
Probe(k) ==
    /\ k \in funcs
    /\ can_make_request(k)
    /\ UNCHANGED <<call, budgetVars, elsewhere>>

\* the bookkeeping of lines 122-124 by a caller the limiter has permitted
Record(k) ==
    /\ k \in funcs
    /\ permitted[k]
    /\ callsLeft > 0
    /\ callsLeft' = callsLeft - 1
    /\ Bookkeeping(k)
    /\ UNCHANGED <<call, funcs, failsLeft, idlesLeft, elsewhere>>

\* time passes while a caller is between two calls of decorated operations
Idle(c, d) ==
    /\ Outside(c)
    /\ idlesLeft > 0
    /\ idlesLeft' = idlesLeft - 1
    /\ Elapse(d)
    /\ UNCHANGED <<request_count, permitted, call, funcs, callsLeft, failsLeft, elsewhere>>

Next ==
    \E c \in Callers :
        \/ \E f \in Funcs : \E m \in Budgets(f) : Enter(c, f, m)
        \/ Check(c)
        \/ Limited(c)
        \/ Track(c)
        \/ InvokeInfo(c)
        \/ InvokePosts(c)
        \/ InvokeFunc(c)
        \/ Cooldown(c)
        \/ RateLimitBackoff(c)
        \/ ServerErrorBackoff(c)
        \/ FinalError(c)
        \/ FlatRetry(c)
        \/ \E d \in IdleSet : Idle(c, d)


\* ------------------------------------------------------------ BackupManager
\* backup_label as save_keywords_to_notion passes it (line 499)
Labels == {"vk_keywords", "telegram_keywords"}
NoTrending == [words |-> <<>>, phrases |-> <<>>]
\* the data handed to safe_update_with_backup: a list of posts, or a dict
Payloads == {[is_list |-> TRUE, list |-> <<"post1", "post2">>, dict |-> NoTrending],
             [is_list |-> FALSE, list |-> <<>>, dict |-> NoTrending]}
\* what update_func(data) does: it returns a response or raises
UpdateOutcomes == {"response 200", "response 400", "raises ConnectionError"}
UpdateRaises(o) == o = "raises ConnectionError"
\* what happens to the backup file: it is written, open() raises, or
\* json.dump raises after open() has made the file
DiskOutcomes == {"written", "open fails", "dump fails"}

\* line 242
PostsOf(data) == IF data.is_list THEN data.list ELSE <<data.dict>>

\* line 174: f"backup_{int(datetime.now().timestamp())}"
BackupId(t) == t

\* lines 168-175; two entries made in the same second differ in the
\* microseconds of their timestamp, which serial stands for
Entry(label, data) ==
    [timestamp |-> [second |-> clock, serial |-> Len(backup_data) + 1],
     scan_type |-> label,
     total_posts |-> Len(PostsOf(data)),
     posts |-> PostsOf(data),
     backup_id |-> BackupId(clock)]

\* the file after open(filename, 'w') and json.dump: complete, or cut short
FileOf(entry, disk) == [complete |-> disk = "written", entry |-> entry]

Written_alone(id, content) == [i \in {id} |-> content]

\* lines 188-190: the files after this one is made
Written(id, content) ==
    [i \in DOMAIN files \cup {id} |-> IF i = id THEN content ELSE files[i]]

\* lines 185-193: a failed write is logged and nothing else
save_local_json(entry, disk) ==
    files' = IF disk = "open fails" THEN files
             ELSE Written(entry.backup_id, FileOf(entry, disk))

\* lines 166-183
add_scan_result(label, data, disk) ==
    /\ backup_data' = Append(backup_data, Entry(label, data))
    /\ save_local_json(Entry(label, data), disk)

NoUpdate == [pc |-> "idle", backup_id |-> Never, serial |-> 0, saved |-> FALSE,
             attempt |-> 0, calls |-> 0, e |-> "", returned |-> "", value |-> ""]

\* lines 237-244: the backup is made first
Backup(label, data, disk) ==
    /\ update.pc \in {"idle", "done"}
    /\ Len(backup_data) < MaxBackups
    /\ add_scan_result(label, data, disk)
    /\ update' = [NoUpdate EXCEPT !.pc = "try",
                                  !.backup_id = Entry(label, data).backup_id,
                                  !.serial = Len(backup_data) + 1,
                                  !.saved = (disk = "written")]
    /\ UNCHANGED <<clock, limiting, response>>

\* safe_update_with_backup called on its own
SafeUpdate(label, data, disk) ==
    /\ scan.pc = "off"
    /\ Backup(label, data, disk)
    /\ UNCHANGED scanVars

\* lines 246-254
TryUpdate(o) ==
    /\ update.pc = "try"
    /\ update' = IF UpdateRaises(o)
                 THEN [update EXCEPT !.calls = @ + 1, !.pc = "retry", !.e = o]
                 ELSE [update EXCEPT !.calls = @ + 1, !.pc = "done",
                                     !.returned = "result", !.value = o]
    /\ UNCHANGED <<clock, backup_data, files, limiting, scanVars, response>>

RetryUpdate_linear(o) ==
    /\ update.pc = "retry"
    /\ clock + update.attempt + 1 <= MaxClock
    /\ clock' = clock + update.attempt + 1
    /\ update' =
         IF ~UpdateRaises(o)
         THEN [update EXCEPT !.calls = @ + 1, !.pc = "done",
                             !.returned = "result", !.value = o]
         ELSE IF update.attempt = RetryLimit - 1
              THEN [update EXCEPT !.calls = @ + 1, !.pc = "done",
                                  !.returned = "backup info", !.value = update.e]
              ELSE [update EXCEPT !.calls = @ + 1, !.attempt = @ + 1]
    /\ UNCHANGED <<backup_data, files, limiting, scanVars, response>>

\* lines 257-278: sleep 2 ** attempt seconds, try again, give up after 3
RetryUpdate(o) ==
    /\ update.pc = "retry"
    /\ clock + Pow2(update.attempt) <= MaxClock
    /\ clock' = clock + Pow2(update.attempt)
    /\ update' =
         IF ~UpdateRaises(o)
         THEN [update EXCEPT !.calls = @ + 1, !.pc = "done",
                             !.returned = "result", !.value = o]
         ELSE IF update.attempt = RetryLimit - 1
              THEN [update EXCEPT !.calls = @ + 1, !.pc = "done",
                                  !.returned = "backup info", !.value = update.e]
              ELSE [update EXCEPT !.calls = @ + 1, !.attempt = @ + 1]
    /\ UNCHANGED <<backup_data, files, limiting, scanVars, response>>

\* a second passes
Tick ==
    /\ clock < MaxClock
    /\ clock' = clock + 1
    /\ UNCHANGED <<backup_data, files, update, limiting, scanVars, response>>

NextBackup ==
    \/ \E label \in Labels : \E data \in Payloads : \E disk \in DiskOutcomes :
          SafeUpdate(label, data, disk)
    \/ \E o \in UpdateOutcomes : TryUpdate(o)
    \/ \E o \in UpdateOutcomes : RetryUpdate(o)
    \/ Tick

\* --------------------------------------------------------- recovery routes
\* BackupManager.add_scan_result called on its own
AddScanResult(label, data, disk) ==
    /\ Len(backup_data) < MaxBackups
    /\ add_scan_result(label, data, disk)
    /\ UNCHANGED <<clock, update, limiting, scanVars, response>>

\* lines 1282-1283 and 1309-1310: open() and json.load succeed
Loads(id) == id \in DOMAIN files /\ files[id].complete

\* lines 1284-1290
Summary(id) ==
    [backup_id |-> files[id].entry.backup_id,
     timestamp |-> files[id].entry.timestamp,
     total_posts |-> files[id].entry.total_posts,
     scan_type |-> files[id].entry.scan_type,
     file_path |-> id]

ListBackupsResponse_failing ==
    IF \A id \in DOMAIN files : Loads(id)
    THEN [route |-> "list_backups", backup_id |-> Never, status |-> 200,
          body |-> [id \in DOMAIN files |-> Summary(id)]]
    ELSE [route |-> "list_backups", backup_id |-> Never, status |-> 500,
          body |-> <<"error">>]

\* lines 1274-1301: a file that cannot be read is passed over
ListBackupsResponse ==
    [route |-> "list_backups", backup_id |-> Never, status |-> 200,
     body |-> [id \in {i \in DOMAIN files : Loads(i)} |-> Summary(id)]]

\* lines 1304-1322
RestoreResponse(id) ==
    IF Loads(id)
    THEN [route |-> "restore_backup", backup_id |-> id, status |-> 200,
          body |-> [backup_id |-> id,
                    total_posts_in_backup |-> Len(files[id].entry.posts),
                    backup_timestamp |-> files[id].entry.timestamp,
                    scan_type |-> files[id].entry.scan_type,
                    status |-> "backup_retrieved"]]
    ELSE [route |-> "restore_backup", backup_id |-> id, status |-> 500,
          body |-> <<"error">>]

\* GET /recovery/list_backups
list_backups ==
    /\ response' = ListBackupsResponse
    /\ UNCHANGED <<backupVars, limiting, scanVars>>

\* GET /recovery/restore/<backup_id>
restore_backup(id) ==
    /\ response' = RestoreResponse(id)
    /\ UNCHANGED <<backupVars, limiting, scanVars>>

\* the backup ids a request names: those of the seconds of the run and of
\* the second before it
RequestedIds == {BackupId(t) : t \in (MaxClock - RecoverySeconds - 1)..MaxClock}

NextRecovery ==
    \/ \E label \in Labels : \E data \in Payloads : \E disk \in DiskOutcomes :
          AddScanResult(label, data, disk)
    \/ Tick
    \/ list_backups
    \/ \E id \in RequestedIds : restore_backup(id)

\* ------------------------------------------------------------- text (str, re)
\* Text is a string of the characters below.  Python's \w also takes the
\* Cyrillic letters, which cannot be written here: the third brand term and
\* Cyrillic posts are written in Latin letters.
LowerCase == "abcdefghijklmnopqrstuvwxyz"
UpperCase == "ABCDEFGHIJKLMNOPQRSTUVWXYZ"
Digits == "0123456789"

Char(s, i) == SubSeq(s, i, i)
Has(s, ch) == \E i \in 1..Len(s) : Char(s, i) = ch
\* \s and \w of the re module
IsSpace(ch) == ch = " "
IsWordChar(ch) == Has(LowerCase, ch) \/ Has(UpperCase, ch) \/ Has(Digits, ch) \/ ch = "_"

\* the strings pieces[lo], ..., pieces[hi] put together
RECURSIVE Join(_, _, _)
Join(pieces, lo, hi) ==
    IF lo > hi THEN ""
    ELSE IF lo = hi THEN pieces[lo]
    ELSE Join(pieces, lo, (lo + hi) \div 2) \o Join(pieces, (lo + hi) \div 2 + 1, hi)

\* the members of a set of positions, in increasing order
Ordered(positions) ==
    [k \in 1..Cardinality(positions) |->
        CHOOSE i \in positions : Cardinality({j \in positions : j < i}) = k - 1]

\* str.lower()
LowerChar(ch) ==
    IF Has(UpperCase, ch)
    THEN Char(LowerCase, CHOOSE i \in 1..Len(UpperCase) : Char(UpperCase, i) = ch)
    ELSE ch
Lower(s) == Join([i \in 1..Len(s) |-> LowerChar(Char(s, i))], 1, Len(s))

\* needle in haystack
Contains(haystack, needle) ==
    \E i \in 1..(Len(haystack) - Len(needle) + 1) :
        SubSeq(haystack, i, i + Len(needle) - 1) = needle

\* word = TRUE: \w, word = FALSE: \S
InClass(ch, word) == IF word THEN IsWordChar(ch) ELSE ~IsSpace(ch)

\* the end of the longest run of \w (or \S) characters that starts at i;
\* i - 1 when there is none
RECURSIVE RunEnd(_, _, _)
RunEnd(s, i, word) ==
    IF i <= Len(s) /\ InClass(Char(s, i), word) THEN RunEnd(s, i + 1, word) ELSE i - 1

\* line 590 on a stretch without white space:
\* re.sub(r'http\S+|@\w+|#\w+|[^\w\s\u0400-\u04FF]', ' ', content)
RECURSIVE CleanFrom(_, _)
CleanFrom(s, i) ==
    IF i > Len(s) THEN ""
    ELSE LET ch == Char(s, i)
         IN  IF i + 4 <= Len(s) /\ SubSeq(s, i, i + 3) = "http"
                /\ RunEnd(s, i + 4, FALSE) >= i + 4
             THEN " " \o CleanFrom(s, RunEnd(s, i + 4, FALSE) + 1)
             ELSE IF ch \in {"@", "#"} /\ RunEnd(s, i + 1, TRUE) >= i + 1
             THEN " " \o CleanFrom(s, RunEnd(s, i + 1, TRUE) + 1)
             ELSE IF ~IsWordChar(ch) /\ ~IsSpace(ch)
             THEN " " \o CleanFrom(s, i + 1)
             ELSE ch \o CleanFrom(s, i + 1)

\* where the runs of \w (or \S) characters of s start
RunStarts(s, word) ==
    {i \in 1..Len(s) :
        InClass(Char(s, i), word) /\ (i = 1 \/ ~InClass(Char(s, i - 1), word))}

\* the runs of \w (or \S) characters of s, in order
Runs(s, word) ==
    LET starts == Ordered(RunStarts(s, word))
    IN  [k \in 1..Len(starts) |-> SubSeq(s, starts[k], RunEnd(s, starts[k], word))]

\* line 590 on the whole content: no match of the pattern holds white
\* space, so every stretch between white space is rewritten on its own
Clean(s) ==
    Join([i \in 1..Len(s) |->
            IF IsSpace(Char(s, i)) THEN Char(s, i)
            ELSE IF i = 1 \/ IsSpace(Char(s, i - 1))
                 THEN CleanFrom(SubSeq(s, i, RunEnd(s, i, FALSE)), 1)
                 ELSE ""],
         1, Len(s))

\* line 595: content.split()
Split(s) == Runs(s, FALSE)

LongEnough(w) == Len(w) >= 4
\* line 592: re.findall(r'[<Cyrillic>\w]{4,}', content)
FindWords(s) == SelectSeq(Runs(s, TRUE), LongEnough)

LongPair(phrase) == Len(phrase) > 8
\* lines 596-599: the phrases of two words longer than 8 characters
Pairs(word_list) ==
    SelectSeq([i \in 1..(Len(word_list) - 1) |->
                  word_list[i] \o " " \o word_list[i + 1]], LongPair)

LongTriple(phrase) == Len(phrase) > 12
\* lines 601-604: the phrases of three words longer than 12 characters
Triples(word_list) ==
    SelectSeq([i \in 1..(Len(word_list) - 2) |->
                  word_list[i] \o " " \o word_list[i + 1] \o " " \o word_list[i + 2]],
              LongTriple)

\* --------------------------- SocialMediaScanner.extract_keywords_from_content
TopWords == 50
TopPhrases == 30
DefaultMinFrequency == 100

\* lines 589-590
Cleaned(post) == Clean(Lower(post.content))

\* lines 588-593: all_words
RECURSIVE AllWords(_, _)
AllWords(posts, i) ==
    IF i > Len(posts) THEN <<>>
    ELSE FindWords(Cleaned(posts[i])) \o AllWords(posts, i + 1)

\* lines 588-604: all_phrases
RECURSIVE AllPhrases(_, _)
AllPhrases(posts, i) ==
    IF i > Len(posts) THEN <<>>
    ELSE Pairs(Split(Cleaned(posts[i]))) \o Triples(Split(Cleaned(posts[i])))
            \o AllPhrases(posts, i + 1)

\* collections.Counter(terms).items(): one (term, count) per term, in the
\* order in which the terms are first seen (a dict keeps insertion order)
Counter(terms) ==
    LET firsts == Ordered({i \in 1..Len(terms) :
                              \A j \in 1..(i - 1) : terms[j] # terms[i]})
    IN  [k \in 1..Len(firsts) |->
            [term |-> terms[firsts[k]],
             count |-> Cardinality({j \in 1..Len(terms) : terms[j] = terms[firsts[k]]})]]

\* lines 609-613
Frequent_all(counts, min_frequency) == counts
Frequent(counts, min_frequency) ==
    SelectSeq(counts, LAMBDA item : item.count >= min_frequency)

\* does item j come before item k when the list is sorted by list.sort(
\* key=count, reverse=True)?  The sort is stable, also when reversed: items
\* of equal count keep their order
Before_unstable(items, j, k) ==
    \/ items[j].count > items[k].count
    \/ items[j].count = items[k].count /\ j > k
Before(items, j, k) ==
    \/ items[j].count > items[k].count
    \/ items[j].count = items[k].count /\ j < k

\* lines 615-616
SortByCount(items) ==
    LET place == [k \in 1..Len(items) |->
                     Cardinality({j \in 1..Len(items) : Before(items, j, k)}) + 1]
    IN  [p \in 1..Len(items) |-> items[CHOOSE k \in 1..Len(items) : place[k] = p]]

\* lines 622-623: a slice [:n]
Top(seq, n) == SubSeq(seq, 1, Min(Len(seq), n))

Trending_unfiltered(terms, min_frequency, n) ==
    Top(SortByCount(Counter(terms)), n)
Trending(terms, min_frequency, n) ==
    Top(SortByCount(Frequent(Counter(terms), min_frequency)), n)

\* lines 583-624
extract_keywords_from_content(posts, min_frequency) ==
    [words |-> Trending(AllWords(posts, 1), min_frequency, TopWords),
     phrases |-> Trending(AllPhrases(posts, 1), min_frequency, TopPhrases)]

\* ------------------------------ SocialMediaScanner.calculate_brand_relevance
\* line 581; the third term is written in Latin letters
MinimalBrandFilter == <<"north sails", "northsails", "nort seils">>
BrandPoints == 5
MaxWordWeight == 3
MaxPhraseWeight == 5
WordWeightStep == 100
PhraseWeightStep == 50
RelevanceCap == 10
MatchedWordsKept == 10
MatchedPhrasesKept == 5

\* the numbers f[lo], ..., f[hi] added up
RECURSIVE SumOf(_, _, _)
SumOf(f, lo, hi) ==
    IF lo > hi THEN 0
    ELSE IF lo = hi THEN f[lo]
    ELSE SumOf(f, lo, (lo + hi) \div 2) + SumOf(f, (lo + hi) \div 2 + 1, hi)

\* lines 630-633
BrandScore(content_lower) ==
    BrandPoints * Cardinality({i \in DOMAIN MinimalBrandFilter :
                                  Contains(content_lower, MinimalBrandFilter[i])})

\* lines 639 and 647
WordWeight(count) == Min(MaxWordWeight, count \div WordWeightStep)
PhraseWeight(count) == Min(MaxPhraseWeight, count \div PhraseWeightStep)

\* lines 637-638, 645-646: the trending terms found in the content
MatchedIn(content_lower, items) ==
    SelectSeq(items, LAMBDA item : Contains(content_lower, item.term))

TermsOf(items) == [i \in 1..Len(items) |-> items[i].term]

\* line 651
TotalRelevance_unclamped(sum) == sum
TotalRelevance(sum) == Min(RelevanceCap, sum)

\* lines 626-660
calculate_brand_relevance(content, trending) ==
    LET content_lower == Lower(content)
        brand_score == BrandScore(content_lower)
        words == MatchedIn(content_lower, trending.words)
        phrases == MatchedIn(content_lower, trending.phrases)
        trending_word_score ==
            SumOf([i \in 1..Len(words) |-> WordWeight(words[i].count)], 1, Len(words))
        trending_phrase_score ==
            SumOf([i \in 1..Len(phrases) |-> PhraseWeight(phrases[i].count)], 1, Len(phrases))
    IN  [total_relevance |->
             TotalRelevance(brand_score + trending_word_score + trending_phrase_score),
         brand_score |-> brand_score,
         trending_word_score |-> trending_word_score,
         trending_phrase_score |-> trending_phrase_score,
         matched_words |-> Top(TermsOf(words), MatchedWordsKept),
         matched_phrases |-> Top(TermsOf(phrases), MatchedPhrasesKept)]

\* ------------------------------------------- the scoring loop of the scans
\* Scores are kept as whole numbers: total engagement in tenths (VK adds
\* views * 0.1), engagement_score and category_bonus in halves (0.5 per
\* matched word, 0.5 for News and Community), north_sails_score and
\* min_score in eighths (a sum of halves divided by 4).
Platforms == {"telegram", "vk"}
TelegramDivisor == 100
VKDivisor == 50
TelegramFloor == 100
VKFloor == 50
EngagementCap == 10
ScoreCap == 10
DefaultMinScore == 6 * 8

\* lines 700 and 872, in tenths
TotalEngagement(platform, e) ==
    IF platform = "telegram"
    THEN 10 * (e.views + e.forwards * 10)
    ELSE 10 * (e.likes + e.comments * 3 + e.reposts * 5) + e.views

Divisor(platform) == IF platform = "telegram" THEN TelegramDivisor ELSE VKDivisor
Floor(platform) == IF platform = "telegram" THEN TelegramFloor ELSE VKFloor

\* the bonus for each matched word, in halves (lines 742 and 920)
MatchedWordsBonus_none(relevance) == 0
MatchedWordsBonus(relevance) == Len(relevance.matched_words)

engagement_score_uncapped(platform, total, relevance) ==
    2 * (total \div (10 * Divisor(platform))) + MatchedWordsBonus(relevance)

\* lines 742 and 920, in halves
engagement_score(platform, total, relevance) ==
    Min(2 * EngagementCap,
        2 * (total \div (10 * Divisor(platform))) + MatchedWordsBonus(relevance))

priority_bonus_strict(priority) ==
    CASE priority = "Critical" -> 3
      [] priority = "High" -> 2
      [] priority = "Medium" -> 1
      [] OTHER -> 0

\* lines 744-746 and 922-924
priority_bonus(priority) ==
    CASE priority = "Critical" -> 3
      [] priority = "High" -> 2
      [] priority = "Medium" -> 1
      [] priority = "Low" -> 0
      [] OTHER -> 1

\* lines 748-751 and 926-929, in halves
category_bonus(platform, category) ==
    CASE category = "Sailing" -> 6
      [] category \in {"Fashion", "Lifestyle"} -> 4
      [] category \in {"Competitor", "Influencer", "Brand"} -> 2
      [] category = "News" /\ platform = "telegram" -> 1
      [] category = "Community" /\ platform = "vk" -> 1
      [] OTHER -> 2

\* lines 753-758 and 931-936, in eighths
north_sails_score_without_relevance(platform, post, relevance) ==
    Min(8 * ScoreCap,
        engagement_score(platform, TotalEngagement(platform, post.engagement), relevance)
          + 2 * priority_bonus(post.priority)
          + category_bonus(platform, post.category))
north_sails_score(platform, post, relevance) ==
    Min(8 * ScoreCap,
        2 * relevance.total_relevance
          + engagement_score(platform, TotalEngagement(platform, post.engagement), relevance)
          + 2 * priority_bonus(post.priority)
          + category_bonus(platform, post.category))

\* lines 760 and 938: the post is skipped
Dropped_exclusive(platform, score, total, min_score) ==
    score <= min_score \/ total < 10 * Floor(platform)
Dropped(platform, score, total, min_score) ==
    score < min_score \/ total < 10 * Floor(platform)

\* round(x, 1) of a number of eighths, in tenths: to the nearest tenth, a
\* tie to the even one
Round1(eighths) ==
    LET q == (10 * eighths) \div 8
        r == (10 * eighths) % 8
    IN  IF r < 4 THEN q
        ELSE IF r > 4 THEN q + 1
        ELSE IF q % 2 = 0 THEN q ELSE q + 1

AnyHas(words, part) == \E i \in 1..Len(words) : Contains(words[i], part)

\* lines 763-770 and 941-948; the Cyrillic stems are written in Latin letters
ContentCategory(matched_words) ==
    IF AnyHas(matched_words, "yaht") \/ AnyHas(matched_words, "sail") THEN "sailing"
    ELSE IF AnyHas(matched_words, "mod") \/ AnyHas(matched_words, "fashion") THEN "fashion"
    ELSE IF AnyHas(matched_words, "premium") \/ AnyHas(matched_words, "luxury") THEN "luxury"
    ELSE "lifestyle"

\* lines 772-808 and 950-986; final_score is the score before it is rounded
FinalPost(platform, post, relevance) ==
    [platform |-> platform,
     source |-> post.source,
     content |-> post.content,
     engagement |-> TotalEngagement(platform, post.engagement),
     matched_words |-> relevance.matched_words,
     matched_phrases |-> relevance.matched_phrases,
     brand_relevance |-> relevance.total_relevance,
     trend_score |-> engagement_score(platform, TotalEngagement(platform, post.engagement), relevance),
     content_category |-> ContentCategory(relevance.matched_words),
     final_score |-> north_sails_score(platform, post, relevance),
     north_sails_score |-> Round1(north_sails_score(platform, post, relevance))]

\* lines 735-810 and 913-988 for one post: what the loop adds to
\* collected_posts
Scored(platform, post, trending, min_score) ==
    LET relevance == calculate_brand_relevance(post.content, trending)
    IN  IF Dropped(platform, north_sails_score(platform, post, relevance),
                   TotalEngagement(platform, post.engagement), min_score)
        THEN <<>>
        ELSE <<FinalPost(platform, post, relevance)>>


\* ------------------------------------------------------------- the scans
MinLength == 50
\* line 829: batch_size=5; lines 723 and 905: the sleeps of the two scans
DefaultBatchSize == 5
UnitPause == 2
BatchPause == 30

\* no scan is made in this run
NoScan == [pc |-> "off", platform |-> "telegram",
           min_frequency |-> DefaultMinFrequency, min_score |-> DefaultMinScore,
           n |-> 0, i |-> 0, saved |-> "", stats |-> <<>>, writes |-> <<>>,
           backups |-> <<>>, notion |-> "", roster |-> <<>>, client |-> "client",
           scanned |-> <<>>, out |-> "", first |-> <<>>,
           batch_size |-> DefaultBatchSize]

NoResponse == [route |-> "", backup_id |-> Never, status |-> 0, body |-> <<>>]

\* what a scan is given: the messages (posts) the sources hold
Engagement(views, forwards, likes, comments, reposts) ==
    [views |-> views, forwards |-> forwards, likes |-> likes,
     comments |-> comments, reposts |-> reposts]
Message(content, source, priority, category, engagement) ==
    [content |-> content, source |-> source, priority |-> priority,
     category |-> category, engagement |-> engagement]

\* the batches of at most n different members of a set, in every order
RECURSIVE Batches(_, _)
Batches(S, n) ==
    IF n = 0 THEN {<<>>}
    ELSE LET shorter == Batches(S, n - 1)
         IN  shorter \cup
               UNION {{Append(q, x) : x \in S \ {q[i] : i \in 1..Len(q)}} :
                         q \in {r \in shorter : Len(r) = n - 1}}

\* lines 695 and 864: messages without text or shorter than 50 are passed over
Usable(message) == Len(message.content) >= MinLength

\* lines 718 and 892: channel_stats has one entry per source, in the
\* order the sources are scanned
SourcesOf(messages) ==
    LET firsts == Ordered({i \in 1..Len(messages) :
                              \A j \in 1..(i - 1) : messages[j].source # messages[i].source})
    IN  [k \in 1..Len(firsts) |-> messages[firsts[k]].source]

\* lines 664-667 and 831-834: there is no source to scan
ScanNothing(platform) ==
    /\ scan.pc \in {"idle", "done"}
    /\ scan.n < MaxScans
    /\ all_raw_posts' = <<>>
    /\ trending_data' = NoTrending
    /\ collected_posts' = <<>>
    /\ scan' = [NoScan EXCEPT !.pc = "done", !.platform = platform, !.n = scan.n + 1,
                              !.out = "[], {}"]
    /\ UNCHANGED <<limiting, backupVars, response>>

\* lines 669-727 and 836-905: the messages of the sources are fetched
Fetch(platform, messages, min_score) ==
    /\ scan.pc \in {"idle", "done"}
    /\ scan.n < MaxScans
    /\ all_raw_posts' = SelectSeq(messages, Usable)
    /\ trending_data' = NoTrending
    /\ collected_posts' = <<>>
    /\ scan' = [NoScan EXCEPT !.pc = "fetched", !.platform = platform,
                              !.min_score = min_score, !.n = scan.n + 1,
                              !.stats = SourcesOf(messages)]
    /\ UNCHANGED <<limiting, backupVars, response>>

\* lines 730 and 908
Discover ==
    /\ scan.pc = "fetched"
    /\ trending_data' = extract_keywords_from_content(all_raw_posts, scan.min_frequency)
    /\ scan' = [scan EXCEPT !.pc = "discovered"]
    /\ UNCHANGED <<all_raw_posts, collected_posts, limiting, backupVars, response>>

\* the scoring is given the trending set of a larger batch
GivenTrending(trending) ==
    /\ scan.pc = "fetched"
    /\ trending_data' = trending
    /\ scan' = [scan EXCEPT !.pc = "discovered"]
    /\ UNCHANGED <<all_raw_posts, collected_posts, limiting, backupVars, response>>

\* the scoring loop is entered
Scoring(frame) ==
    [frame EXCEPT !.i = 1,
                  !.pc = IF all_raw_posts = <<>> THEN "scored" ELSE "scoring"]

\* discovery and scoring without the writes of a scan in between
RankStart ==
    /\ scan.pc = "discovered"
    /\ scan' = Scoring(scan)
    /\ UNCHANGED <<all_raw_posts, trending_data, collected_posts,
                   limiting, backupVars, response>>

\* line 499: f'{source_platform}_keywords'
KeywordsLabel(platform) ==
    IF platform = "telegram" THEN "telegram_keywords" ELSE "vk_keywords"

\* lines 733 and 911, 428-499: save_keywords_to_notion hands the trending
\* data to safe_update_with_backup, which makes the backup first
SaveKeywords(disk) ==
    /\ scan.pc = "discovered"
    /\ Backup(KeywordsLabel(scan.platform),
              [is_list |-> FALSE, list |-> <<>>, dict |-> trending_data], disk)
    /\ scan' = [scan EXCEPT !.pc = "saving",
                            !.backups = Append(@, Len(backup_data) + 1)]
    /\ UNCHANGED <<all_raw_posts, trending_data, collected_posts>>

\* what safe_update_with_backup has returned: the Response of update_func, or
\* the dict of lines 273-278
ResultOf(u) ==
    IF u.returned = "backup info"
    THEN [is_dict |-> TRUE, keys |-> {"success", "backup_id", "error", "message"},
          status_code |-> 0, backup_id |-> u.backup_id]
    ELSE [is_dict |-> FALSE, keys |-> {},
          status_code |-> IF u.value = "response 200" THEN 200 ELSE 400,
          backup_id |-> Never]

\* lines 501-506: isinstance(result, dict) and result.get('status_code') == 200
save_keywords_to_notion(result) ==
    IF result.is_dict /\ "status_code" \in result.keys /\ result.status_code = 200
    THEN "True"
    ELSE "True"

\* lines 499-506: save_keywords_to_notion returns, the scoring loop is next
KeywordsSaved ==
    /\ scan.pc = "saving"
    /\ update.pc = "done"
    /\ scan' = [Scoring(scan) EXCEPT !.saved = save_keywords_to_notion(ResultOf(update))]
    /\ UNCHANGED <<all_raw_posts, trending_data, collected_posts,
                   limiting, backupVars, response>>

ScoreNext_ranked ==
    /\ scan.pc = "scoring"
    /\ collected_posts' =
          LET new == Scored(scan.platform, all_raw_posts[scan.i],
                            trending_data, scan.min_score)
              above == SelectSeq(collected_posts,
                                 LAMBDA p : new = <<>> \/ p.north_sails_score >= new[1].north_sails_score)
              below == SelectSeq(collected_posts,
                                 LAMBDA p : new # <<>> /\ p.north_sails_score < new[1].north_sails_score)
          IN  above \o new \o below
    /\ scan' = [scan EXCEPT !.i = @ + 1,
                            !.pc = IF scan.i = Len(all_raw_posts)
                                   THEN "scored" ELSE "scoring"]
    /\ UNCHANGED <<all_raw_posts, trending_data, limiting, backupVars, response>>

\* lines 735-810 and 913-988: one turn of the scoring loop
ScoreNext ==
    /\ scan.pc = "scoring"
    /\ collected_posts' =
          collected_posts \o Scored(scan.platform, all_raw_posts[scan.i],
                                    trending_data, scan.min_score)
    /\ scan' = [scan EXCEPT !.i = @ + 1,
                            !.pc = IF scan.i = Len(all_raw_posts)
                                   THEN "scored" ELSE "scoring"]
    /\ UNCHANGED <<all_raw_posts, trending_data, limiting, backupVars, response>>

\* what requests.patch does in update_telegram_stats / update_vk_stats
StatsOutcomes == {"response 200", "raises ConnectionError"}

\* lines 813 and 991: p.get('channel_config', {}).get('id'), for VK
\* p.get('community_config', {}).get('id')
ConfigId(platform, p) ==
    LET key == IF platform = "telegram" THEN "channel_config" ELSE "community_config"
    IN  IF key \in DOMAIN p THEN p[key].id ELSE "None"

\* round(sum / n, 1) of numbers given in tenths: the nearest tenth, a tie to
\* the even one
RoundMean(sum, n) ==
    LET q == sum \div n
        r == sum % n
    IN  IF 2 * r < n THEN q
        ELSE IF 2 * r > n THEN q + 1
        ELSE IF q % 2 = 0 THEN q ELSE q + 1

\* lines 813-816: avg_score of a channel, in tenths; lines 991-994:
\* avg_engagement of a community, in tenths. It stays at the 0 of lines 720
\* and 894 when no post is found for the unit.
AverageOf(platform, posts, id) ==
    LET unit_posts == SelectSeq(posts, LAMBDA p : ConfigId(platform, p) = id)
        value(p) == IF platform = "telegram" THEN p.north_sails_score ELSE p.engagement
    IN  IF unit_posts # <<>>
        THEN RoundMean(SumOf([k \in 1..Len(unit_posts) |-> value(unit_posts[k])],
                             1, Len(unit_posts)), Len(unit_posts))
        ELSE 0

\* lines 812-818 and 990-996, 369-426: the statistics of one source are
\* written; a failure is logged and nothing else
UpdateStats(o) ==
    /\ scan.pc = "scored"
    /\ scan.stats # <<>>
    /\ scan' = [scan EXCEPT !.stats = Tail(@),
                            !.writes = Append(@,
                               [source |-> Head(scan.stats),
                                average |-> AverageOf(scan.platform, collected_posts,
                                                      Head(scan.stats)),
                                outcome |-> o])]
    /\ UNCHANGED <<all_raw_posts, trending_data, collected_posts,
                   limiting, backupVars, response>>

\* lines 819-827 and 998-1002: the Telegram scan disconnects its client in
\* the finally clause, which raises when get_client has returned None, and
\* the error is raised again; otherwise the scan returns its two results
Return ==
    /\ scan.pc = "scored"
    /\ scan.stats = <<>>
    /\ scan' = [scan EXCEPT !.pc = "done",
                            !.out = IF scan.platform = "telegram" /\ scan.client = "None"
                                    THEN "raises AttributeError"
                                    ELSE "posts, trending"]
    /\ UNCHANGED <<all_raw_posts, trending_data, collected_posts,
                   limiting, backupVars, response>>

\* BackupManager.__init__ (lines 162-164), no backup file yet
InitBackupStore ==
    /\ clock = 0
    /\ backup_data = <<>>
    /\ files = <<>>
    /\ update = NoUpdate

\* no scan and no recovery request
InitNoScan ==
    /\ all_raw_posts = <<>>
    /\ trending_data = NoTrending
    /\ collected_posts = <<>>
    /\ scan = NoScan
    /\ response = NoResponse

\* VKClient.__init__ (line 519): a fresh limiter
InitLimiter ==
    /\ last_request = [k \in Funcs |-> Never]
    /\ request_count = [k \in Funcs |-> 0]
    /\ reset_time = [k \in Funcs |-> Never]
    /\ permitted = [k \in Funcs |-> FALSE]

\* one caller, a few calls of any of the decorated operations
Init ==
    /\ InitLimiter
    /\ call = [c \in Callers |-> IF c = 1 THEN NoCall ELSE Off]
    /\ funcs = Funcs
    /\ callsLeft = MaxCalls
    /\ failsLeft = MaxFails
    /\ idlesLeft = MaxIdles
    /\ InitBackupStore
    /\ InitNoScan

\* two callers sharing the limiter
InitConc ==
    /\ InitLimiter
    /\ call = [c \in Callers |-> NoCall]
    /\ funcs = Funcs
    /\ callsLeft = ConcCalls
    /\ failsLeft = ConcFails
    /\ idlesLeft = ConcIdles
    /\ InitBackupStore
    /\ InitNoScan

\* one caller calling one operation often enough to use up the quota
InitQuota ==
    /\ InitLimiter
    /\ call = [c \in Callers |-> IF c = 1 THEN NoCall ELSE Off]
    /\ \E g \in Funcs : funcs = {g}
    /\ callsLeft = 0
    /\ failsLeft = QuotaFails
    /\ idlesLeft = QuotaIdles
    /\ InitBackupStore
    /\ InitNoScan

\* the limiter on its own: checks at any time, calls recorded by callers it
\* has permitted, and time passing
NextLimiter ==
    \/ \E k \in Funcs : Probe(k)
    \/ \E k \in Funcs : Record(k)
    \/ \E d \in IdleSet : Idle(1, d)

InitLimiterAlone ==
    /\ InitLimiter
    /\ call = [c \in Callers |-> IF c = 1 THEN NoCall ELSE Off]
    /\ funcs = Funcs
    /\ callsLeft = MaxRecords
    /\ failsLeft = 0
    /\ idlesLeft = MaxTicks
    /\ InitBackupStore
    /\ InitNoScan

\* the limiter on its own late in a busy window: 99 calls of one operation
\* are recorded, the last of them 350 ms ago or more, and the window began
\* a little less than a minute ago
BurstAges == {WindowMs - 250, WindowMs - 50}

InitWindow ==
    /\ last_request = [k \in Funcs |-> IF k = "func" THEN MinGapMs ELSE Never]
    /\ request_count = [k \in Funcs |-> IF k = "func" THEN QuotaPerMinute - 1 ELSE 0]
    /\ \E w \in BurstAges :
          reset_time = [k \in Funcs |-> IF k = "func" THEN w ELSE Never]
    /\ permitted = [k \in Funcs |-> FALSE]
    /\ call = [c \in Callers |-> IF c = 1 THEN NoCall ELSE Off]
    /\ funcs = Funcs
    /\ callsLeft = MaxRecords
    /\ failsLeft = 0
    /\ idlesLeft = MaxTicks
    /\ InitBackupStore
    /\ InitNoScan

\* the backup store and safe_update_with_backup, no VK call in progress
InitBackup ==
    /\ InitLimiter
    /\ call = [c \in Callers |-> Off]
    /\ funcs = {}
    /\ callsLeft = 0
    /\ failsLeft = 0
    /\ idlesLeft = 0
    /\ InitBackupStore
    /\ InitNoScan

\* the backup store and the recovery routes, some seconds of running
InitRecovery ==
    /\ InitLimiter
    /\ call = [c \in Callers |-> Off]
    /\ funcs = {}
    /\ callsLeft = 0
    /\ failsLeft = 0
    /\ idlesLeft = 0
    /\ clock = MaxClock - RecoverySeconds
    /\ backup_data = <<>>
    /\ files = <<>>
    /\ update = NoUpdate
    /\ InitNoScan

\* ---------------------------------------------- discovery and scoring runs
\* the texts of the posts
BrandText == "North Sails wins the regatta, the north sails team is in"
AllBrandsText == "northsails, North Sails and nort seils are all at sea now"
PlainText == "a sea of old men and we see him go up to the top of it all"
OtherPlainText == "we go up to the top of it and see the old sea, all of us"
SailText == "sailing yacht regatta, a sailing yacht in fashion #sailing http://t.me/x"

\* total engagement 100 (Telegram) and 58 (VK): at or just over the floor
AtFloor == Engagement(90, 1, 40, 3, 0)
\* total engagement 99 (Telegram) and 49.9 (VK): just under the floor
UnderFloor == Engagement(99, 0, 40, 0, 0)
\* total engagement 1200 (Telegram) and 720 (VK): engagement_score is capped
Viral == Engagement(1200, 0, 600, 0, 0)

RankPosts ==
    {Message(BrandText, "s1", "Low", "News", Viral),
     Message(PlainText, "s2", "Critical", "Sailing", Viral),
     Message(PlainText, "s1", "Low", "News", Viral),
     Message(OtherPlainText, "s1", "Low", "News", Viral),
     Message(SailText, "s2", "Urgent", "Other", AtFloor),
     Message(AllBrandsText, "s1", "Critical", "Sailing", UnderFloor)}

\* a trending set of a production-scale batch
LargeTrending ==
    [words |-> <<[term |-> "sailing", count |-> 450],
                 [term |-> "yacht", count |-> 250],
                 [term |-> "regatta", count |-> 100],
                 [term |-> "team", count |-> 100]>>,
     phrases |-> <<[term |-> "north sails", count |-> 300],
                   [term |-> "sailing yacht", count |-> 120]>>]

\* what a scan is asked for: every post of a small batch with its keywords,
\* or the keywords of 100 uses and a score of 4.0
Settings ==
    {[min_frequency |-> 1, min_score |-> 0],
     [min_frequency |-> DefaultMinFrequency, min_score |-> 4 * 8]}

\* discovery and scoring of one batch
InitRank ==
    /\ InitLimiter
    /\ call = [c \in Callers |-> Off]
    /\ funcs = {}
    /\ callsLeft = 0
    /\ failsLeft = 0
    /\ idlesLeft = 0
    /\ InitBackupStore
    /\ all_raw_posts \in Batches(RankPosts, MaxBatch)
    /\ trending_data = NoTrending
    /\ collected_posts = <<>>
    /\ \E platform \in Platforms : \E asked \in Settings :
          scan = [NoScan EXCEPT !.pc = "fetched", !.platform = platform,
                                !.min_frequency = asked.min_frequency,
                                !.min_score = asked.min_score]
    /\ response = NoResponse

\* posts whose matched words and phrases carry the vocabulary of the
\* categories: "mod" in a phrase only, "sailing" and "fashion", "fashion"
\* and "luxury", "premium", and none
ShowsText == "nedelya mod is on: the nedelya mod and the crews are out at sea today"
FashionText == "the fashion week shows luxury coats and a fashion of old times"
PremiumText == "premium boats and premium crews meet here every other week"
CategoryPosts ==
    {Message(ShowsText, "s1", "High", "Sailing", Viral),
     Message(SailText, "s1", "High", "Sailing", Viral),
     Message(FashionText, "s2", "Medium", "Fashion", Viral),
     Message(PremiumText, "s2", "Medium", "Fashion", Viral),
     Message(PlainText, "s2", "Low", "News", Viral)}

InitCategory ==
    /\ InitLimiter
    /\ call = [c \in Callers |-> Off]
    /\ funcs = {}
    /\ callsLeft = 0
    /\ failsLeft = 0
    /\ idlesLeft = 0
    /\ InitBackupStore
    /\ all_raw_posts \in Batches(CategoryPosts, MaxBatch)
    /\ trending_data = NoTrending
    /\ collected_posts = <<>>
    /\ \E platform \in Platforms :
          scan = [NoScan EXCEPT !.pc = "fetched", !.platform = platform,
                                !.min_frequency = 1, !.min_score = 0]
    /\ response = NoResponse

\* posts at and below the highest score there is, and min_score settings
\* around it (in eighths: 6.5 and 6.625)
CeilingPosts ==
    {Message(AllBrandsText, "s1", "Critical", "Sailing", Viral),
     Message(SailText, "s2", "Urgent", "Other", AtFloor),
     Message(PlainText, "s3", "Low", "News", Viral)}
CeilingScores == {0, 52, 53}

InitCeiling ==
    /\ InitLimiter
    /\ call = [c \in Callers |-> Off]
    /\ funcs = {}
    /\ callsLeft = 0
    /\ failsLeft = 0
    /\ idlesLeft = 0
    /\ InitBackupStore
    /\ all_raw_posts \in Batches(CeilingPosts, MaxBatch)
    /\ trending_data = NoTrending
    /\ collected_posts = <<>>
    /\ \E platform \in Platforms : \E m \in CeilingScores :
          scan = [NoScan EXCEPT !.pc = "fetched", !.platform = platform,
                                !.min_frequency = 1, !.min_score = m]
    /\ response = NoResponse

NextRank ==
    \/ Discover
    \/ GivenTrending(LargeTrending)
    \/ RankStart
    \/ ScoreNext

\* texts of many different words: <stem>01 <stem>02 ...
Numbered(stem, n) ==
    Join([i \in 1..n |-> stem \o Char(Digits, (i \div 10) + 1) \o Char(Digits, (i % 10) + 1) \o " "],
         1, n)

ManyWords == 30
DiscoveryTexts ==
    {Numbered("sail", ManyWords),
     Numbered("yacht", ManyWords),
     "north sails regatta north sails yacht01",
     "regatta sails and yacht02 yacht01"}

\* discovery on its own
InitDiscovery ==
    /\ InitLimiter
    /\ call = [c \in Callers |-> Off]
    /\ funcs = {}
    /\ callsLeft = 0
    /\ failsLeft = 0
    /\ idlesLeft = 0
    /\ InitBackupStore
    /\ all_raw_posts \in Batches({[content |-> t] : t \in DiscoveryTexts}, MaxBatch)
    /\ trending_data = NoTrending
    /\ collected_posts = <<>>
    /\ \E f \in {1, 2} :
          scan = [NoScan EXCEPT !.pc = "fetched", !.min_frequency = f]
    /\ response = NoResponse

NextDiscovery == Discover

\* the messages the sources of a scan hold
ScanMessages ==
    {<<>>,
     <<Message(BrandText, "s1", "Low", "News", Viral)>>,
     <<Message(BrandText, "s1", "Critical", "Sailing", Viral),
       Message("too short", "s2", "Low", "News", Viral),
       Message(SailText, "s2", "Medium", "Other", AtFloor)>>}

\* scans one after the other
InitScan ==
    /\ InitLimiter
    /\ call = [c \in Callers |-> Off]
    /\ funcs = {}
    /\ callsLeft = 0
    /\ failsLeft = 0
    /\ idlesLeft = 0
    /\ InitBackupStore
    /\ all_raw_posts = <<>>
    /\ trending_data = NoTrending
    /\ collected_posts = <<>>
    /\ scan = [NoScan EXCEPT !.pc = "idle"]
    /\ response = NoResponse

NextScan ==
    \/ \E platform \in Platforms : ScanNothing(platform)
    \/ \E platform \in Platforms : \E messages \in ScanMessages :
          \E m \in {2 * 8, DefaultMinScore} : Fetch(platform, messages, m)
    \/ Discover
    \/ \E disk \in DiskOutcomes : SaveKeywords(disk)
    \/ \E o \in UpdateOutcomes : TryUpdate(o)
    \/ \E o \in UpdateOutcomes : RetryUpdate(o)
    \/ KeywordsSaved
    \/ ScoreNext
    \/ \E o \in StatsOutcomes : UpdateStats(o)
    \/ Return
    \/ Tick

\* ------------------------------------------------------- the scan routes
ScanRoutes == {"/scan/telegram", "/scan/vk", "/scan/all"}
TopTrending == 10
TopTrendingAll == 5

\* what the Notion API does when the roster is asked for
NotionOutcomes == {"response 200", "response 401", "raises ConnectionError"}

\* a source unit of a roster: a channel or a community
Unit(id, priority, category) == [id |-> id, priority |-> priority, category |-> category]
\* the rosters the Notion database can hold
Listings == {<<Unit("s1", "Low", "News")>>,
             <<Unit("s1", "Critical", "Sailing"), Unit("s2", "Medium", "Other"),
               Unit("s3", "High", "Fashion")>>}

\* lines 280-321 and 323-367: the units listed, or [] when the API does not
\* answer 200 or the request raises
get_telegram_channels_listed(o, listed) == listed
get_telegram_channels(o, listed) == IF o = "response 200" THEN listed ELSE <<>>

\* lines 46-72: a connected client, or None when there is no session
\* string, the session is not authorized or connecting raises
Clients == {"client", "None"}

\* what scanning one unit does: its messages are fetched, the fetch raises,
\* or (VK, lines 855-857) get_community_info returns nothing
UnitOutcomes == {"messages", "raises", "no info"}

\* the messages a unit holds (lines 694-716 and 863-890)
Holds(unit) ==
    IF unit.id = "s2"
    THEN <<Message("too short", unit.id, unit.priority, unit.category, Viral),
           Message(SailText, unit.id, unit.priority, unit.category, AtFloor)>>
    ELSE <<Message(BrandText, unit.id, unit.priority, unit.category, Viral)>>

\* lines 662-671 and 829-838: a scan begins
StartScan(platform, min_score, first) ==
    /\ all_raw_posts' = <<>>
    /\ trending_data' = NoTrending
    /\ collected_posts' = <<>>
    /\ scan' = [NoScan EXCEPT !.pc = "roster", !.platform = platform,
                              !.min_score = min_score, !.n = scan.n + 1,
                              !.first = first]

\* lines 1033-1045, 1089-1098 and 1142-1156: a scan route is requested and
\* begins its first scan
Request(route, min_score) ==
    /\ scan.pc = "idle"
    /\ response.route = ""
    /\ response' = [NoResponse EXCEPT !.route = route]
    /\ StartScan(IF route = "/scan/vk" THEN "vk" ELSE "telegram", min_score, <<>>)
    /\ UNCHANGED <<limiting, backupVars>>

\* lines 664-667 and 831-834: the roster is fetched; without a roster the
\* scan returns [], {}
GetRoster(o, listed) ==
    /\ scan.pc = "roster"
    /\ LET roster == get_telegram_channels(o, listed) IN
       scan' = IF roster = <<>>
               THEN [scan EXCEPT !.notion = o, !.pc = "done", !.out = "[], {}"]
               ELSE [scan EXCEPT !.notion = o, !.roster = roster,
                                 !.pc = IF scan.platform = "telegram"
                                        THEN "client" ELSE "units"]
    /\ UNCHANGED <<all_raw_posts, trending_data, collected_posts,
                   limiting, backupVars, response>>

\* line 674
GetClient(c) ==
    /\ scan.pc = "client"
    /\ scan' = [scan EXCEPT !.client = c, !.pc = "units"]
    /\ UNCHANGED <<all_raw_posts, trending_data, collected_posts,
                   limiting, backupVars, response>>

\* lines 724-726 and 898-900: after a unit, whatever it did, the loop goes
\* on to the units that remain
AfterUnit_aborting(o, remaining) ==
    IF remaining = <<>> \/ o = "raises" THEN "fetched" ELSE "units"
AfterUnit(o, remaining) == IF remaining = <<>> THEN "fetched" ELSE "units"

\* The seconds slept after the unit at a place (1, 2, ...) of a roster of
\* `units` units, before the next unit begins. Telegram (line 723): the sleep
\* is the last statement of the unit's try. VK (lines 844-905): i is the
\* start of the unit's batch (an index from 0); the sleep follows the last
\* unit of a batch when i + batch_size < len(communities_config).
PauseAfter_every(platform, o, place, units, batch_size) ==
    IF platform = "telegram"
    THEN IF o = "messages" THEN UnitPause ELSE 0
    ELSE LET i == ((place - 1) \div batch_size) * batch_size
         IN  IF place = Min(i + batch_size, units) /\ i + batch_size <= units
             THEN BatchPause ELSE 0
PauseAfter(platform, o, place, units, batch_size) ==
    IF platform = "telegram"
    THEN IF o = "messages" THEN UnitPause ELSE 0
    ELSE LET i == ((place - 1) \div batch_size) * batch_size
         IN  IF place = Min(i + batch_size, units) /\ i + batch_size < units
             THEN BatchPause ELSE 0

\* lines 679-726 and 849-900: one unit of the roster; an error is logged
\* and the loop continues with the next unit. Without a client every
\* Telegram unit raises at client.get_entity.
ScanUnit(o) ==
    /\ scan.pc = "units"
    /\ (scan.platform = "telegram" /\ scan.client = "None") => o = "raises"
    /\ o = "no info" => scan.platform = "vk"
    /\ LET unit == Head(scan.roster) IN
       /\ all_raw_posts' =
             IF o = "messages" THEN all_raw_posts \o SelectSeq(Holds(unit), Usable)
             ELSE all_raw_posts
       /\ scan' = [scan EXCEPT
                     !.roster = Tail(@),
                     !.scanned = Append(@,
                        [unit |-> unit, outcome |-> o,
                         slept |-> PauseAfter(scan.platform, o, Len(scan.scanned) + 1,
                                              Len(scan.scanned) + Len(scan.roster),
                                              scan.batch_size)]),
                     !.stats = IF o = "messages" THEN Append(@, unit.id) ELSE @,
                     !.pc = AfterUnit(o, Tail(scan.roster))]
    /\ UNCHANGED <<trending_data, collected_posts, limiting, backupVars, response>>

\* lines 1064, 1117 and 1191: the posts with north_sails_score >= 8 (the
\* field is in tenths)
HighScore == 8
HighScorePosts(posts) ==
    Cardinality({k \in 1..Len(posts) : posts[k].north_sails_score >= 10 * HighScore})

\* lines 1070-1075 and 1123-1128: the number of posts of each category
Categories(posts) ==
    [c \in {posts[i].content_category : i \in 1..Len(posts)} |->
        Cardinality({i \in 1..Len(posts) : posts[i].content_category = c})]

\* lines 1078-1087, 1131-1140 and 1201-1210: the answer to a scan that
\* raised, with status 500
ErrorResponse(text) ==
    [keys |-> {"error", "source", "timestamp", "posts"},
     error |-> text,
     total_posts |-> 0,
     posts |-> <<>>,
     trending_keywords |-> NoTrending,
     platforms |-> <<>>,
     summary |-> {},
     high_score_posts |-> 0,
     categories |-> <<>>]

\* lines 1047-1075 and 1100-1128: the result of /scan/telegram and /scan/vk
ScanResponse(posts, trending) ==
    [keys |-> {"source", "timestamp", "parameters", "total_posts", "posts",
               "trending_keywords", "summary"},
     error |-> "",
     total_posts |-> Len(posts),
     posts |-> posts,
     trending_keywords |-> [words |-> Top(trending.words, TopTrending),
                            phrases |-> Top(trending.phrases, TopTrending)],
     platforms |-> <<>>,
     summary |-> {"total_collected", "avg_north_sails_score", "top_category",
                  "high_score_posts", "categories"},
     high_score_posts |-> HighScorePosts(posts),
     categories |-> Categories(posts)]

\* lines 1161-1198: the result of /scan/all
AllResponse(telegram, vk) ==
    [keys |-> {"source", "timestamp", "parameters", "platforms", "total_posts",
               "posts", "summary"},
     error |-> "",
     total_posts |-> Len(telegram.posts \o vk.posts),
     posts |-> telegram.posts \o vk.posts,
     trending_keywords |-> NoTrending,
     platforms |->
        [p \in Platforms |->
            LET of == IF p = "telegram" THEN telegram ELSE vk
            IN  [posts_count |-> Len(of.posts),
                 trending_keywords |->
                    [words |-> Top(of.trending.words, TopTrendingAll),
                     phrases |-> Top(of.trending.phrases, TopTrendingAll)]]],
     summary |-> {"total_collected", "avg_north_sails_score", "top_category",
                  "high_score_posts", "platform_breakdown"},
     high_score_posts |-> HighScorePosts(telegram.posts \o vk.posts),
     categories |-> <<>>]

\* what the route's except clause reports: the error of the scan, or the
\* KeyError of trending_data['words'] when the scan returned [], {}
ErrorOf(out) == IF out = "[], {}" THEN "'words'" ELSE out

\* lines 1157-1158: /scan/all goes on from the Telegram scan to the VK scan
ScanVK ==
    /\ scan.pc = "done"
    /\ response.status = 0
    /\ response.route = "/scan/all"
    /\ scan.platform = "telegram"
    /\ scan.out \in {"posts, trending", "[], {}"}
    /\ StartScan("vk", scan.min_score,
                 <<[posts |-> collected_posts, trending |-> trending_data,
                    out |-> scan.out]>>)
    /\ UNCHANGED <<limiting, backupVars, response>>

\* the scans of the route have returned or one of them has raised: the
\* route answers
Respond ==
    /\ scan.pc = "done"
    /\ response.status = 0
    /\ response.route \in ScanRoutes
    /\ ~(response.route = "/scan/all" /\ scan.platform = "telegram"
            /\ scan.out \in {"posts, trending", "[], {}"})
    /\ LET last == [posts |-> collected_posts, trending |-> trending_data,
                    out |-> scan.out]
           failed == IF scan.first # <<>> /\ scan.first[1].out # "posts, trending"
                     THEN scan.first[1].out
                     ELSE IF scan.out # "posts, trending" THEN scan.out ELSE ""
       IN  response' =
             IF failed # ""
             THEN [response EXCEPT !.status = 500, !.body = ErrorResponse(ErrorOf(failed))]
             ELSE [response EXCEPT
                     !.status = 200,
                     !.body = IF response.route = "/scan/all"
                              THEN AllResponse(scan.first[1], last)
                              ELSE ScanResponse(collected_posts, trending_data)]
    /\ UNCHANGED <<scanVars, limiting, backupVars>>

\* one request of a scan route
MinScores == {2 * 8, DefaultMinScore}

NextRoutes ==
    \/ \E route \in ScanRoutes : \E m \in MinScores : Request(route, m)
    \/ \E o \in NotionOutcomes : \E listed \in Listings : GetRoster(o, listed)
    \/ \E c \in Clients : GetClient(c)
    \/ \E o \in UnitOutcomes : ScanUnit(o)
    \/ Discover
    \/ SaveKeywords("written")
    \/ \E o \in UpdateOutcomes : TryUpdate(o)
    \/ \E o \in UpdateOutcomes : RetryUpdate(o)
    \/ KeywordsSaved
    \/ ScoreNext
    \/ \E o \in StatsOutcomes : UpdateStats(o)
    \/ Return
    \/ ScanVK
    \/ Respond

Spec == Init /\ [][Next]_vars
SpecRoutes == InitScan /\ [][NextRoutes]_vars

\* the fetch loop alone: rosters of up to MaxUnits units, and for VK the
\* batch sizes a request can give
MaxUnits == 4
BatchSizes == {1, 2, 3, DefaultBatchSize}
Roster(n) == [k \in 1..n |-> Unit("s" \o Char(Digits, k + 1), "Medium", "Other")]
InitPauses ==
    /\ InitLimiter
    /\ call = [c \in Callers |-> Off]
    /\ funcs = {}
    /\ callsLeft = 0
    /\ failsLeft = 0
    /\ idlesLeft = 0
    /\ InitBackupStore
    /\ all_raw_posts = <<>>
    /\ trending_data = NoTrending
    /\ collected_posts = <<>>
    /\ \E platform \in Platforms : \E n \in 1..MaxUnits : \E b \in BatchSizes :
          /\ platform = "telegram" => b = DefaultBatchSize
          /\ scan = [NoScan EXCEPT !.pc = "units", !.platform = platform, !.n = 1,
                                   !.notion = "response 200", !.roster = Roster(n),
                                   !.batch_size = b]
    /\ response = NoResponse
NextPauses == \E o \in UnitOutcomes : ScanUnit(o)
SpecPauses == InitPauses /\ [][NextPauses]_vars
SpecLimiter == InitLimiterAlone /\ [][NextLimiter]_vars
SpecWindow == InitWindow /\ [][NextLimiter]_vars
SpecBackup == InitBackup /\ [][NextBackup]_vars
SpecRecovery == InitRecovery /\ [][NextRecovery]_vars
SpecRank == InitRank /\ [][NextRank]_vars
SpecCategory == InitCategory /\ [][NextRank]_vars
SpecCeiling == InitCeiling /\ [][NextRank]_vars
SpecDiscovery == InitDiscovery /\ [][NextDiscovery]_vars
SpecScan == InitScan /\ [][NextScan]_vars
SpecConc == InitConc /\ [][Next]_vars
SpecQuota == InitQuota /\ [][Next]_vars

\* ------------------------------------------------------------------ claims
Frame(c) == call[c]
Last(seq) == seq[Len(seq)]
Checked(c) == Frame(c).pc \in {"track", "limited"}
Spaced(k) == last_request[k] = Never \/ last_request[k] >= MinGapMs
VKFuncs == {"get_community_info", "get_community_posts"}
Is429(i) == i.raised /\ i.text = {"429"}

(* C1: once 100 calls of a key are recorded in the current window, every
   check of the key before the window is over answers (False, 60 s), and no
   101st call is recorded in the window. *)
C1_QuotaDenies ==
    /\ \A k \in Funcs : request_count[k] <= QuotaPerMinute
    /\ \A c \in Callers :
         (Checked(c) /\ request_count[Frame(c).func] >= QuotaPerMinute)
            => (~Frame(c).can_request /\ Frame(c).wait_time = QuotaWaitMs)

C1_Witness ==
    \E c \in Callers :
        /\ Frame(c).pc = "limited"
        /\ request_count[Frame(c).func] = QuotaPerMinute
        /\ Frame(c).wait_time = QuotaWaitMs

(* C2: with the quota not reached, a check d ms after the key's last
   recorded call is denied with wait 350 - d when d < 350 (d = 100 gives
   250 ms), and is not denied when d >= 350 or no call was recorded. *)
C2_SpacingDenies ==
    \A c \in Callers :
        (Checked(c) /\ request_count[Frame(c).func] < QuotaPerMinute) =>
            IF Spaced(Frame(c).func)
            THEN Frame(c).can_request
            ELSE /\ ~Frame(c).can_request
                 /\ Frame(c).wait_time = MinGapMs - last_request[Frame(c).func]

C2_Witness ==
    \E c \in Callers :
        /\ Frame(c).pc = "limited"
        /\ last_request[Frame(c).func] = 100
        /\ Frame(c).wait_time = 250

(* C3: a check records nothing: it leaves every last_request and every
   other key's counter as they are and at most zeroes the checked key's
   counter when its window is over; a permit that stands is withdrawn only
   by a recorded call, never by further checks or by time passing. *)
C3_CheckRecordsNothing ==
    [][\A k \in Funcs :
          /\ Probe(k) =>
                /\ last_request' = last_request
                /\ \A j \in Funcs \ {k} : request_count'[j] = request_count[j]
                /\ request_count'[k] =
                      IF reset_time[k] = Never \/ reset_time[k] > WindowMs
                      THEN 0 ELSE request_count[k]
          /\ (permitted[k] /\ ~permitted'[k]) =>
                request_count'[k] = request_count[k] + 1]_vars

C3_Witness ==
    \E k \in Funcs :
        /\ permitted[k]
        /\ request_count[k] = 0
        /\ last_request[k] # Never

(* C4: a denial by the limiter does not use up an attempt: the attempt
   index never runs ahead of the number of invocations made. *)
C4_DenialKeepsBudget ==
    \A c \in Callers : Frame(c).attempt <= Len(Frame(c).invocations)

(* C5: a call whose last invocation raised never returns a value (None):
   it ends by raising that error. *)
C5_ExhaustionRaises ==
    \A c \in Callers :
        (Frame(c).pc = "returned" /\ Frame(c).invocations # <<>>)
            => ~Last(Frame(c).invocations).raised

(* C6: with a budget of at least 3, after "429" on the first two
   invocations the backoff sleeps are 5 s then 10 s, a third invocation is
   made, and when it succeeds its result is returned. *)
C6_TwoFailuresThenSuccess ==
    \A c \in Callers :
        LET fr == Frame(c)
            inv == fr.invocations
        IN  (fr.max_retries >= 3 /\ Len(inv) >= 2 /\ Is429(inv[1]) /\ Is429(inv[2])) =>
               /\ Len(fr.sleeps) >= 1 => fr.sleeps[1] = 5000
               /\ Len(fr.sleeps) >= 2 => fr.sleeps[2] = 10000
               /\ fr.pc \in {"returned", "raised"} => Len(inv) >= 3
               /\ (Len(inv) = 3 /\ ~inv[3].raised /\ fr.pc = "returned")
                     => fr.result = "result"

(* C7: a quota signal of the VK API (HTTP 429 or a raised rate-limit
   error) during get_community_info or get_community_posts is never turned
   into a returned value: the call is retried, or fails. *)
C7_QuotaSignalRetried ==
    \A c \in Callers :
        (Frame(c).func \in VKFuncs /\ Frame(c).signal \in QuotaSignals)
            => Frame(c).pc \notin {"cooldown", "returned"}

(* C8: with callers sharing the limiter, never more than 100 calls are
   recorded for a key in one window, and a caller about to record and start
   its invocation is at least 350 ms after the key's last recorded call. *)
C8_LimitsUnderConcurrency ==
    /\ \A k \in Funcs : request_count[k] <= QuotaPerMinute
    /\ \A c \in Callers : Frame(c).pc = "track" => Spaced(Frame(c).func)

(* C9: the update function is invoked only once the backup record of this
   call has been written: a backup whose write failed stops the call before
   any update is attempted. *)
C9_BackupBeforeUpdate ==
    update.calls > 0 =>
        /\ update.backup_id \in DOMAIN files
        /\ files[update.backup_id].complete
        /\ files[update.backup_id].entry.timestamp.serial = update.serial

(* C10: any two calls of add_scan_result return different backup_id values,
   also within one second, so no call overwrites the record of an earlier
   one. *)
C10_BackupIdsUnique ==
    \A i, j \in 1..Len(backup_data) :
        i # j => backup_data[i].backup_id # backup_data[j].backup_id

\* a scan that fetched posts has returned
ScanFinished == scan.pc = "done" /\ all_raw_posts # <<>>

(* C11: a finished scan that fetched posts has made exactly one backup
   record, which holds the posts the scan has scored and returns
   (collected_posts) and was written to disk whole. *)
C11_BackupOfRankedBatch ==
    ScanFinished =>
        /\ Len(scan.backups) = 1
        /\ backup_data[scan.backups[1]].posts = collected_posts
        /\ backup_data[scan.backups[1]].backup_id \in DOMAIN files
        /\ files[backup_data[scan.backups[1]].backup_id].complete

\* safe_update_with_backup has returned and the write has not succeeded
WriteFailed == update.pc = "done" /\ update.value # "response 200"

(* C12: when the write to the external store has failed, by an exception on
   every attempt or by a response other than 200, what safe_update_with_backup
   returns to its caller reports the failure and carries the backup_id of the
   record made beforehand. *)
C12_FailureReportedWithBackupId ==
    WriteFailed =>
        /\ ResultOf(update).is_dict
        /\ {"error", "backup_id"} \subseteq ResultOf(update).keys
        /\ ResultOf(update).backup_id = update.backup_id

\* the backup files that open() and json.load read
Readable == {id \in DOMAIN files : files[id].complete}

(* C13: every answer of the two recovery routes is a response value.  The
   listing answers 200 with one summary for each readable backup file, so
   the empty list when there is no backup, passing over the files that
   cannot be read; retrieving a backup_id that has no readable file answers
   500 with an error body. *)
C13_RecoveryDegradesGracefully ==
    [][response' # response =>
          /\ response'.route = "list_backups" =>
                /\ response'.status = 200
                /\ DOMAIN response'.body = Readable
                /\ files = <<>> => response'.body = <<>>
          /\ response'.route = "restore_backup" =>
                IF response'.backup_id \in Readable
                THEN response'.status = 200
                ELSE response'.status = 500 /\ response'.body = <<"error">>]_vars

\* no backup is present and a backup_id has been asked for
C13_Witness ==
    /\ files = <<>>
    /\ response.route = "restore_backup"
    /\ response.status = 500

\* the trending set the scoring works with has been computed
Discovered == scan.pc \in {"discovered", "scoring", "scored"}

\* the relevance of the i-th post of the batch
RelevanceOf(i) == calculate_brand_relevance(all_raw_posts[i].content, trending_data)

(* C14: for every post of the batch and the trending set at hand,
   total_relevance is within 0..10; for every post the scan returns,
   final_score is within 0..10 (0..80 eighths), and so is the rounded
   north_sails_score (0..100 tenths). *)
C14_ScoresWithinBounds ==
    /\ Discovered =>
          \A i \in 1..Len(all_raw_posts) :
              RelevanceOf(i).total_relevance \in 0..RelevanceCap
    /\ \A i \in 1..Len(collected_posts) :
          /\ collected_posts[i].brand_relevance \in 0..RelevanceCap
          /\ collected_posts[i].final_score \in 0..(8 * ScoreCap)
          /\ collected_posts[i].north_sails_score \in 0..(10 * ScoreCap)

\* a post whose brand, word and phrase scores add up to more than 10 has
\* been scored and is returned
C14_Witness ==
    /\ scan.pc = "scored"
    /\ \E i \in 1..Len(all_raw_posts) : \E k \in 1..Len(collected_posts) :
          /\ collected_posts[k].content = all_raw_posts[i].content
          /\ RelevanceOf(i).brand_score + RelevanceOf(i).trending_word_score
                + RelevanceOf(i).trending_phrase_score > RelevanceCap
          /\ collected_posts[k].brand_relevance = RelevanceCap

\* min(10, total_engagement // engagement_divisor), in halves
QuotientScore(platform, total) ==
    Min(2 * EngagementCap, 2 * (total \div (10 * Divisor(platform))))

(* C15 as stated: the engagement score of every returned post is
   min(10, total_engagement // engagement_divisor), whatever its text and
   its matched keywords are. *)
C15_EngagementScoreIsQuotient ==
    \A i \in 1..Len(collected_posts) :
        collected_posts[i].trend_score
            = QuotientScore(collected_posts[i].platform, collected_posts[i].engagement)

(* C15 amended: the engagement score of every returned post is
   min(10, total_engagement // engagement_divisor + 0.5 for each matched
   trending word the post keeps): two posts of the same source type with
   the same total engagement and as many matched words get the same
   engagement score, and one with more matched words never gets less. *)
C15_EngagementScoreWithMatchedWords ==
    /\ \A i \in 1..Len(collected_posts) :
          collected_posts[i].trend_score
              = Min(2 * EngagementCap,
                    2 * (collected_posts[i].engagement
                            \div (10 * Divisor(collected_posts[i].platform)))
                      + Len(collected_posts[i].matched_words))
    /\ \A i, j \in 1..Len(collected_posts) :
          (/\ collected_posts[i].platform = collected_posts[j].platform
           /\ collected_posts[i].engagement = collected_posts[j].engagement
           /\ Len(collected_posts[i].matched_words) <= Len(collected_posts[j].matched_words))
              => collected_posts[i].trend_score <= collected_posts[j].trend_score

\* a returned post with matched words whose engagement score is above the
\* quotient and below the cap
C15_Witness ==
    \E i \in 1..Len(collected_posts) :
        /\ collected_posts[i].matched_words # <<>>
        /\ collected_posts[i].trend_score
              > QuotientScore(collected_posts[i].platform, collected_posts[i].engagement)
        /\ collected_posts[i].trend_score < 2 * EngagementCap

\* the i-th post of the batch: its score before rounding (eighths), its total
\* engagement (tenths), and whether the scan returns it
ScoreOf(i) == north_sails_score(scan.platform, all_raw_posts[i], RelevanceOf(i))
TotalOf(i) == TotalEngagement(scan.platform, all_raw_posts[i].engagement)
Appears(i) ==
    \E k \in 1..Len(collected_posts) :
        /\ collected_posts[k].content = all_raw_posts[i].content
        /\ collected_posts[k].source = all_raw_posts[i].source

(* C16: when the scoring loop is through, a post of the batch is in the
   output if and only if its final_score is at least min_score and its total
   engagement is at least the floor of its platform, 100 for Telegram and 50
   for VK. *)
C16_InclusionRule ==
    scan.pc = "scored" =>
        \A i \in 1..Len(all_raw_posts) :
            Appears(i) <=>
                /\ ScoreOf(i) >= scan.min_score
                /\ TotalOf(i) >= 10 * (IF scan.platform = "telegram"
                                       THEN TelegramFloor ELSE VKFloor)

\* one post scores min_score exactly and is returned, one an eighth less
\* with engagement far over the floor and is not, and one scores enough
\* with engagement under the floor and is not
C16_Witness ==
    /\ scan.pc = "scored"
    /\ \E i, j, k \in 1..Len(all_raw_posts) :
          /\ ScoreOf(i) = scan.min_score /\ Appears(i)
          /\ ScoreOf(j) = scan.min_score - 1 /\ ~Appears(j)
          /\ TotalOf(j) >= 100 * Floor(scan.platform)
          /\ ScoreOf(k) >= scan.min_score /\ ~Appears(k)
          /\ TotalOf(k) < 10 * Floor(scan.platform)

\* the scenario: a batch of 3 posts with the same engagement, at or above
\* the floor, scored with min_frequency 1 and min_score 0 against the
\* keywords discovered from the batch; post b names the brand, and the other
\* two match no keyword at all
NoMatch(i) ==
    /\ RelevanceOf(i).total_relevance = 0
    /\ RelevanceOf(i).matched_words = <<>>
    /\ RelevanceOf(i).matched_phrases = <<>>

BrandScenario(b) ==
    /\ scan.pc = "scored"
    /\ Len(all_raw_posts) = 3
    /\ scan.min_frequency = 1
    /\ scan.min_score = 0
    /\ \A i \in 1..3 : all_raw_posts[i].engagement = all_raw_posts[b].engagement
    /\ TotalOf(b) >= 10 * Floor(scan.platform)
    /\ trending_data = extract_keywords_from_content(all_raw_posts, 1)
    /\ BrandScore(Lower(all_raw_posts[b].content)) > 0
    /\ \A i \in 1..3 \ {b} : NoMatch(i)

\* the posts come from sources of the same priority and category
SameSources ==
    \A i, j \in 1..Len(all_raw_posts) :
        /\ all_raw_posts[i].priority = all_raw_posts[j].priority
        /\ all_raw_posts[i].category = all_raw_posts[j].category

(* C17 as stated: in the scenario all 3 posts are returned and the post
   with the brand term has a strictly higher final_score than each of the
   others. *)
C17_BrandPostScoresHigher ==
    \A b \in 1..3 :
        BrandScenario(b) =>
            /\ \A i \in 1..3 : Appears(i)
            /\ \A i \in 1..3 \ {b} : ScoreOf(b) > ScoreOf(i)

(* C17 amended: in the scenario all 3 posts are returned, and when the 3
   posts come from sources of the same priority and category, the post with
   the brand term has a strictly higher final_score than each of the
   others. *)
C17_BrandPostScoresHigherSameSources ==
    \A b \in 1..3 :
        BrandScenario(b) =>
            /\ \A i \in 1..3 : Appears(i)
            /\ SameSources => \A i \in 1..3 \ {b} : ScoreOf(b) > ScoreOf(i)

\* the scenario with 3 posts from sources of the same priority and category
C17_Witness ==
    \E b \in 1..3 :
        /\ BrandScenario(b)
        /\ SameSources
        /\ \A i \in 1..3 \ {b} : ScoreOf(b) > ScoreOf(i)

\* how often a term occurs in the words, or phrases, of the whole batch
Occurrences(terms, t) == Cardinality({j \in 1..Len(terms) : terms[j] = t})

\* items is a trending list of the terms: at most n items, no term twice,
\* each with its count over the whole batch, which is at least
\* min_frequency; counts never increasing down the list; and every term
\* left out either falls short of min_frequency or, the list being full,
\* has no higher count than the last item
TrendingListOf(items, terms, min_frequency, n) ==
    /\ Len(items) <= n
    /\ \A k \in 1..Len(items) :
          /\ items[k].count = Occurrences(terms, items[k].term)
          /\ items[k].count >= min_frequency
    /\ \A j, k \in 1..Len(items) :
          /\ j < k => items[j].count >= items[k].count
          /\ j # k => items[j].term # items[k].term
    /\ \A j \in 1..Len(terms) :
          \/ \E k \in 1..Len(items) : items[k].term = terms[j]
          \/ Occurrences(terms, terms[j]) < min_frequency
          \/ Len(items) = n /\ Occurrences(terms, terms[j]) <= items[n].count

(* C18: the trending set discovery returns lists at most 50 words and at
   most 30 phrases, each with its count over the whole batch, all of them at
   least min_frequency, in order of non-increasing count, and no term that
   is left out has a higher count than one that is listed. *)
C18_TrendingSetShape ==
    scan.pc = "discovered" =>
        /\ TrendingListOf(trending_data.words, AllWords(all_raw_posts, 1),
                          scan.min_frequency, 50)
        /\ TrendingListOf(trending_data.phrases, AllPhrases(all_raw_posts, 1),
                          scan.min_frequency, 30)

\* more than 50 words and more than 30 phrases reach min_frequency, and
\* words of several posts are counted together
C18_Witness ==
    /\ scan.pc = "discovered"
    /\ Len(trending_data.words) = 50
    /\ Len(trending_data.phrases) = 30
    /\ Len(Frequent(Counter(AllWords(all_raw_posts, 1)), scan.min_frequency)) > 50
    /\ trending_data.words[1].count > trending_data.words[50].count
    /\ \E i \in 1..Len(all_raw_posts) :
          Occurrences(AllWords(<<all_raw_posts[i]>>, 1), trending_data.words[1].term)
              < trending_data.words[1].count

\* the batch in another order
Orders(n) == {f \in [1..n -> 1..n] : \A i, j \in 1..n : f[i] = f[j] => i = j}
Reordered(posts, f) == [i \in 1..Len(posts) |-> posts[f[i]]]

\* the members of a trending list with their counts
ItemsOf(items) == {items[k] : k \in 1..Len(items)}

(* C19: the trending set discovered from the batch in any other order of
   its posts has the same words and phrases with the same counts. *)
C19_OrderIndependent ==
    scan.pc = "discovered" =>
        \A f \in Orders(Len(all_raw_posts)) :
            LET other == extract_keywords_from_content(Reordered(all_raw_posts, f),
                                                       scan.min_frequency)
            IN  /\ ItemsOf(other.words) = ItemsOf(trending_data.words)
                /\ ItemsOf(other.phrases) = ItemsOf(trending_data.phrases)

\* where a term is first seen in the words, or phrases, of the batch
FirstSeen(terms, t) ==
    CHOOSE j \in 1..Len(terms) :
        terms[j] = t /\ \A i \in 1..(j - 1) : terms[i] # t

\* listed terms of equal count are in the order they were first seen
TiesInFirstSeenOrder(items, terms) ==
    \A j, k \in 1..Len(items) :
        (j < k /\ items[j].count = items[k].count)
            => FirstSeen(terms, items[j].term) < FirstSeen(terms, items[k].term)

(* C20: in the trending set discovery returns, words of equal count are
   listed in the order in which they were first seen in the batch, and so
   are phrases: with the counts and the cut to 50 and 30 this fixes both
   lists, order included, for a given batch. *)
C20_TiesInFirstSeenOrder ==
    scan.pc = "discovered" =>
        /\ TiesInFirstSeenOrder(trending_data.words, AllWords(all_raw_posts, 1))
        /\ TiesInFirstSeenOrder(trending_data.phrases, AllPhrases(all_raw_posts, 1))

\* words of equal count from different posts are listed, behind a word of a
\* higher count that was first seen after one of them
C20_Witness ==
    /\ scan.pc = "discovered"
    /\ Len(all_raw_posts) > 1
    /\ \E j, k \in 1..Len(trending_data.words) :
          /\ j < k
          /\ trending_data.words[j].count = trending_data.words[k].count
          /\ Occurrences(AllWords(<<all_raw_posts[1]>>, 1), trending_data.words[j].term) > 0
          /\ Occurrences(AllWords(<<all_raw_posts[1]>>, 1), trending_data.words[k].term) = 0
          /\ \E h \in 1..(j - 1) :
                FirstSeen(AllWords(all_raw_posts, 1), trending_data.words[h].term)
                    > FirstSeen(AllWords(all_raw_posts, 1), trending_data.words[j].term)

\* no word and no phrase of the batch occurs min_frequency times
NothingTrends ==
    /\ \A j \in 1..Len(AllWords(all_raw_posts, 1)) :
          Occurrences(AllWords(all_raw_posts, 1), AllWords(all_raw_posts, 1)[j])
              < scan.min_frequency
    /\ \A j \in 1..Len(AllPhrases(all_raw_posts, 1)) :
          Occurrences(AllPhrases(all_raw_posts, 1), AllPhrases(all_raw_posts, 1)[j])
              < scan.min_frequency

(* C21: when no word and no phrase of the batch reaches min_frequency,
   discovery returns no words and no phrases, and each post of the batch
   scored against that trending set has trending_word_score 0,
   trending_phrase_score 0 and no matched words or phrases. *)
C21_NothingTrendsNothingMatches ==
    (scan.pc = "discovered" /\ NothingTrends) =>
        /\ trending_data.words = <<>>
        /\ trending_data.phrases = <<>>
        /\ \A i \in 1..Len(all_raw_posts) :
              /\ RelevanceOf(i).trending_word_score = 0
              /\ RelevanceOf(i).trending_phrase_score = 0
              /\ RelevanceOf(i).matched_words = <<>>
              /\ RelevanceOf(i).matched_phrases = <<>>

\* a batch with words and phrases, none of them twice, and min_frequency 2
C21_Witness ==
    /\ scan.pc = "discovered"
    /\ NothingTrends
    /\ AllWords(all_raw_posts, 1) # <<>>
    /\ AllPhrases(all_raw_posts, 1) # <<>>
    /\ Len(all_raw_posts) > 1
    /\ trending_data = NoTrending

\* the counter of a key goes down only to 0, at a check that finds the
\* key's window over a minute old and starts a new window; and every such
\* check does so
ResetOnlyAfterWindow ==
    \A k \in Funcs :
        /\ request_count'[k] < request_count[k] =>
              /\ reset_time[k] > WindowMs
              /\ request_count'[k] = 0
              /\ reset_time'[k] = 0
        /\ (Probe(k) /\ reset_time[k] # Never /\ reset_time[k] > WindowMs) =>
              /\ request_count'[k] = 0
              /\ reset_time'[k] = 0
        /\ (Probe(k) /\ reset_time[k] # Never /\ reset_time[k] <= WindowMs) =>
              /\ request_count'[k] = request_count[k]
              /\ reset_time'[k] = reset_time[k]

\* the first check of a key after its window has expired, the key being
\* denied for quota until then: a denial leaves the limiter as it was, so
\* this is any check that finds the counter at the quota in an expired window
CheckAfterQuotaWindow(k) ==
    /\ Probe(k)
    /\ request_count[k] >= QuotaPerMinute
    /\ reset_time[k] > WindowMs

(* C26 as stated: the counter of a key is reset to 0 exactly at a check
   that finds more than 60 s elapsed since the key's window began, and a key
   that was denied for quota is permitted by the first check after its
   window has expired. *)
C26_ResetAndPermitAfterWindow ==
    [][/\ ResetOnlyAfterWindow
       /\ \A k \in Funcs : CheckAfterQuotaWindow(k) => permitted'[k]]_vars

(* C26 amended: the counter of a key is reset to 0 exactly at a check that
   finds more than 60 s elapsed since the key's window began, and at the
   first check after its window has expired a key that was denied for quota
   is no longer denied for quota: it is permitted unless its last recorded
   call is less than 350 ms old. *)
C26_ResetAfterWindow ==
    [][/\ ResetOnlyAfterWindow
       /\ \A k \in Funcs :
             CheckAfterQuotaWindow(k) => (permitted'[k] <=> Spaced(k))]_vars

\* the 100th call of the window was recorded and a later check, after the
\* window had expired, has reset the counter and permitted the key
C26_Witness ==
    \E k \in Funcs :
        /\ callsLeft = MaxRecords - 1
        /\ request_count[k] = 0
        /\ reset_time[k] = 0
        /\ last_request[k] # Never
        /\ permitted[k]

\* the operation of caller c has returned without an error in the attempt
\* the caller is in
ReturnedThisAttempt(c) ==
    /\ Len(Frame(c).invocations) = Frame(c).attempt - Frame(c).denials + 1
    /\ ~Last(Frame(c).invocations).raised

(* C27: the bookkeeping of a key (last-call timestamp, counter + 1) is
   recorded after the operation has returned without an error, so that an
   attempt that raises adds nothing to the counter: every step that raises
   the counter of a key is taken for a caller whose operation has just
   returned in the current attempt. *)
C27_BookkeepingAfterSuccess ==
    [][\A k \in Funcs :
          request_count'[k] > request_count[k] =>
              \E c \in Callers :
                  /\ Frame(c).func = k
                  /\ Frame(c).pc \in {"invoke", "cooldown"}
                  /\ ReturnedThisAttempt(c)]_vars

\* caller c has caught an error of its operation and has attempts left
CaughtWithAttemptsLeft(c) ==
    /\ Frame(c).pc = "except"
    /\ Frame(c).attempt + 1 < Frame(c).max_retries

\* caller c sleeps w milliseconds and goes on to its next attempt
SleepsAndRetries(c, w) ==
    /\ Frame(c)'.pc = "check"
    /\ Frame(c)'.attempt = Frame(c).attempt + 1
    /\ Frame(c)'.sleeps = Append(Frame(c).sleeps, w)

\* any other error with attempts left: a flat second; no backoff is ever
\* longer than 300 s
FlatRetryAndCap ==
    /\ \A c \in Callers :
          (CaughtWithAttemptsLeft(c) /\ ~IsRateLimit(Frame(c).e)
                                     /\ ~IsServerError(Frame(c).e)) =>
              (vars' # vars => SleepsAndRetries(c, FlatWaitMs))
    /\ \A c \in Callers :
          (Frame(c).pc = "except" /\ IsRateLimit(Frame(c).e) /\ vars' # vars) =>
              /\ Frame(c)'.sleeps =
                    Append(Frame(c).sleeps,
                           Min(BackoffCapMs, BackoffBaseMs * Pow2(Frame(c).attempt)))
              /\ Last(Frame(c)'.sleeps) <= BackoffCapMs

(* C28 as stated: with attempts remaining, a failure whose text contains
   502 or 503 is followed by a sleep of 2 * (attempt + 1) seconds and a
   retry, any failure that is neither rate-limit nor 502/503 by a flat 1 s
   sleep and a retry, and the quota backoff is never longer than 300 s. *)
C28_ServerErrorTextBacksOff ==
    [][/\ \A c \in Callers :
             (CaughtWithAttemptsLeft(c) /\ IsServerError(Frame(c).e)) =>
                 (vars' # vars =>
                     SleepsAndRetries(c, ServerWaitMs * (Frame(c).attempt + 1)))
       /\ FlatRetryAndCap]_vars

(* C28 amended: with attempts remaining, a failure whose text contains 502
   or 503 and no rate-limit signal is followed by a sleep of
   2 * (attempt + 1) seconds and a retry, any failure that is neither
   rate-limit nor 502/503 by a flat 1 s sleep and a retry, and the quota
   backoff min(300, 5 * 2^attempt), which a text with a rate-limit signal
   gets even when it contains 502 or 503, is never longer than 300 s. *)
C28_RetrySleeps ==
    [][/\ \A c \in Callers :
             (CaughtWithAttemptsLeft(c) /\ IsServerError(Frame(c).e)
                                        /\ ~IsRateLimit(Frame(c).e)) =>
                 (vars' # vars =>
                     SleepsAndRetries(c, ServerWaitMs * (Frame(c).attempt + 1)))
       /\ FlatRetryAndCap]_vars

\* a call that slept 1 s after an error of another kind on its first
\* attempt and 4 s after a 502 on its second, and is at its third attempt
C28_Witness ==
    \E c \in Callers :
        /\ Frame(c).pc = "check"
        /\ Frame(c).attempt = 2
        /\ Frame(c).sleeps = <<FlatWaitMs, 2 * ServerWaitMs>>
        /\ Last(Frame(c).invocations).text = {"502"}

\* the loop iterations caller c has begun: the attempts it has finished and
\* the one it is in
Iterations(c) ==
    Frame(c).attempt + IF Frame(c).attempt < Frame(c).max_retries THEN 1 ELSE 0

(* C29: a call of a wrapped operation makes at most max_retries loop
   iterations and at most max_retries invocations of the operation (3 for
   get_community_info, 5 for get_community_posts), whatever the limiter
   answers and whatever errors occur; each iteration ends in a denial or an
   invocation, so the call ends once the budget is used. *)
C29_CallIsBounded ==
    \A c \in Callers :
        Frame(c).pc \notin {"off", "idle"} =>
            /\ Iterations(c) <= Frame(c).max_retries
            /\ Len(Frame(c).invocations) <= Frame(c).max_retries
            /\ Len(Frame(c).invocations) + Frame(c).denials <= Iterations(c)
            /\ Frame(c).attempt = Frame(c).max_retries =>
                  Frame(c).pc \in {"returned", "raised"}
            /\ Frame(c).func = "get_community_info" => Frame(c).max_retries = 3
            /\ Frame(c).func = "get_community_posts" => Frame(c).max_retries = 5

\* a call that used its whole budget of three iterations on a denial and
\* two failing invocations, and ended
C29_Witness ==
    \E c \in Callers :
        /\ Frame(c).pc = "returned"
        /\ Frame(c).max_retries = 3
        /\ Frame(c).attempt = 3
        /\ Frame(c).denials = 1
        /\ Len(Frame(c).invocations) = 2

\* the priorities and the categories the tables of the scoring loop list
KnownPriorities == {"Critical", "High", "Medium", "Low"}
KnownCategories(platform) ==
    {"Sailing", "Fashion", "Lifestyle", "Competitor", "Influencer", "Brand"}
        \cup (IF platform = "telegram" THEN {"News"} ELSE {"Community"})

\* the k-th returned post is the i-th post of the batch
IsPost(k, i) ==
    /\ collected_posts[k].content = all_raw_posts[i].content
    /\ collected_posts[k].source = all_raw_posts[i].source

(* C30: the final score of every returned post is min(10, (total_relevance
   + engagement_score + priority_bonus + category_bonus) / 4), here in
   eighths, with the bonuses looked up from the priority and the category of
   the post's source, and 1 for a priority or a category the tables do not
   list. *)
C30_FinalScoreFormula ==
    \A k \in 1..Len(collected_posts) : \A i \in 1..Len(all_raw_posts) :
        IsPost(k, i) =>
            LET post == all_raw_posts[i]
                pb == priority_bonus(post.priority)
                cb == category_bonus(scan.platform, post.category)
            IN  /\ collected_posts[k].final_score =
                      Min(8 * ScoreCap,
                          2 * collected_posts[k].brand_relevance
                            + collected_posts[k].trend_score + 2 * pb + cb)
                /\ post.priority \notin KnownPriorities => pb = 1
                /\ post.category \notin KnownCategories(scan.platform) => cb = 2
                /\ post.priority = "Critical" => pb = 3
                /\ post.priority = "Low" => pb = 0
                /\ post.category = "Sailing" => cb = 6

\* a post from a source whose priority and category are in neither table
\* has been scored and is returned, and so has one from a Critical Sailing
\* source
C30_Witness ==
    /\ scan.pc = "scored"
    /\ \E k \in 1..Len(collected_posts) : \E i \in 1..Len(all_raw_posts) :
          /\ IsPost(k, i)
          /\ all_raw_posts[i].priority \notin KnownPriorities
          /\ all_raw_posts[i].category \notin KnownCategories(scan.platform)
          /\ collected_posts[k].final_score < 8 * ScoreCap
    /\ \E k \in 1..Len(collected_posts) : \E i \in 1..Len(all_raw_posts) :
          /\ IsPost(k, i)
          /\ all_raw_posts[i].priority = "Critical"
          /\ all_raw_posts[i].category = "Sailing"

\* the usable messages of the units scanned so far whose fetch succeeded
RECURSIVE FetchedFrom(_)
FetchedFrom(scanned) ==
    IF scanned = <<>> THEN <<>>
    ELSE FetchedFrom(SubSeq(scanned, 1, Len(scanned) - 1)) \o
            (IF Last(scanned).outcome = "messages"
             THEN SelectSeq(Holds(Last(scanned).unit), Usable) ELSE <<>>)

\* the unit loop of the scan is over
UnitsDone == scan.pc \in {"fetched", "discovered", "saving", "scoring", "scored"}

(* C22: an error raised while one unit is scanned does not end the scan:
   the loop goes on with the units that remain until the roster is through,
   the posts fetched from the other units stay in the batch, and each of
   them is scored and returned when it passes the inclusion rule; the
   response of a scan that returned holds the posts collected. *)
C22_UnitErrorDoesNotAbort ==
    [][/\ (scan.pc = "units" /\ scan'.scanned # scan.scanned
                             /\ Last(scan'.scanned).outcome = "raises") =>
              /\ all_raw_posts' = all_raw_posts
              /\ scan'.roster = Tail(scan.roster)
              /\ scan'.pc = IF scan'.roster = <<>> THEN "fetched" ELSE "units"
       /\ UnitsDone =>
              /\ scan.roster = <<>>
              /\ all_raw_posts = FetchedFrom(scan.scanned)
       /\ scan.pc = "scored" =>
              \A i \in 1..Len(all_raw_posts) :
                  Appears(i) <=> ~Dropped(scan.platform, ScoreOf(i), TotalOf(i),
                                          scan.min_score)
       /\ (response.status = 200 /\ response.route # "/scan/all") =>
              response.body.posts = collected_posts]_vars

\* a scan of three units whose second unit raised has answered with the
\* posts of the first and the third
C22_Witness ==
    /\ response.status = 200
    /\ Len(scan.scanned) = 3
    /\ scan.scanned[1].outcome = "messages"
    /\ scan.scanned[2].outcome = "raises"
    /\ scan.scanned[3].outcome = "messages"
    /\ \E k \in 1..Len(response.body.posts) : response.body.posts[k].source = "s1"
    /\ \E k \in 1..Len(response.body.posts) : response.body.posts[k].source = "s3"

\* the roster of the scan in progress, or of the first scan of the request,
\* could not be fetched
RosterFailed ==
    \/ scan.notion \in NotionOutcomes \ {"response 200"}
    \/ scan.first # <<>> /\ scan.first[1].out = "[], {}"

(* C23: when the roster of a scan cannot be fetched, no unit of that scan is
   scanned and nothing is fetched, discovered or scored by it, and the route
   answers with an error object: status 500, a body with an error text and
   an empty posts list. *)
C23_RosterFailureAnswered ==
    /\ scan.notion \in NotionOutcomes \ {"response 200"} =>
          /\ scan.scanned = <<>>
          /\ scan.roster = <<>>
          /\ all_raw_posts = <<>>
          /\ collected_posts = <<>>
          /\ scan.pc = "done"
          /\ scan.out = "[], {}"
    /\ (RosterFailed /\ response.status # 0) =>
          /\ response.status = 500
          /\ {"error", "posts"} \subseteq response.body.keys
          /\ response.body.error # ""
          /\ response.body.posts = <<>>

\* /scan/telegram has answered a request whose roster the Notion API did
\* not deliver
C23_Witness ==
    /\ response.route = "/scan/telegram"
    /\ response.status = 500
    /\ scan.notion = "raises ConnectionError"
    /\ response.body.error = "'words'"

\* every unit of the Telegram roster was tried without a client
TelegramWithoutClient ==
    /\ scan.platform = "telegram"
    /\ scan.client = "None"
    /\ scan.scanned # <<>>

(* C24: without an authorized Telegram client the Telegram scan ends at
   once, no unit being tried, and /scan/all still scans the VK communities:
   a /scan/all request is answered only after its VK scan, with the posts
   that scan collected. *)
C24_OtherSourceStillRuns ==
    /\ ~TelegramWithoutClient
    /\ (response.route = "/scan/all" /\ response.status # 0) =>
          /\ scan.platform = "vk"
          /\ response.status = 200 => response.body.posts = scan.first[1].posts \o collected_posts

\* the counts of a mapping added up
RECURSIVE CountsOf(_, _)
CountsOf(f, keys) ==
    IF keys = {} THEN 0
    ELSE LET k == CHOOSE x \in keys : TRUE
         IN  f[k] + CountsOf(f, keys \ {k})

(* C25: every successful scan response has the total count, the list of
   posts, the top trending words and phrases and a category breakdown;
   total_posts is the length of the list and the counts of the breakdown add
   up to total_posts. *)
C25_ResponseShape ==
    response.status = 200 =>
        /\ {"total_posts", "posts"} \subseteq response.body.keys
        /\ response.body.total_posts = Len(response.body.posts)
        /\ "trending_keywords" \in response.body.keys
              \/ "platforms" \in response.body.keys
        /\ "categories" \in response.body.summary
        /\ CountsOf(response.body.categories, DOMAIN response.body.categories)
              = response.body.total_posts

\* the matched words and the matched phrases of a returned post
EvidenceOf(post) == post.matched_words \o post.matched_phrases

(* C31: the category of every returned post follows the cascade over its
   matched words and phrases alike: sailing if any of them carries sailing
   vocabulary, otherwise fashion, otherwise luxury, otherwise lifestyle. *)
C31_CategoryCascade ==
    \A k \in 1..Len(collected_posts) :
        LET evidence == EvidenceOf(collected_posts[k])
        IN  collected_posts[k].content_category =
              IF AnyHas(evidence, "yaht") \/ AnyHas(evidence, "sail") THEN "sailing"
              ELSE IF AnyHas(evidence, "mod") \/ AnyHas(evidence, "fashion") THEN "fashion"
              ELSE IF AnyHas(evidence, "premium") \/ AnyHas(evidence, "luxury") THEN "luxury"
              ELSE "lifestyle"

\* the place in the fetched batch of the message a returned post was made of
FetchedAt(post) ==
    {i \in 1..Len(all_raw_posts) : /\ all_raw_posts[i].content = post.content
                                   /\ all_raw_posts[i].source = post.source}

(* C32: the returned posts are a subsequence of the fetched messages in fetch
   order: every returned post was made of one fetched message, and of two
   returned posts the one fetched earlier stands earlier in the output,
   whatever their scores. *)
C32_FetchOrderKept ==
    /\ \A k \in 1..Len(collected_posts) :
          Cardinality(FetchedAt(collected_posts[k])) = 1
    /\ \A k, l \in 1..Len(collected_posts) :
          k < l => \A i \in FetchedAt(collected_posts[k]) :
                      \A j \in FetchedAt(collected_posts[l]) : i < j

\* a scan has returned a later-fetched post with a higher score behind an
\* earlier-fetched one, and has left out a message fetched between them
C32_Witness ==
    /\ scan.pc = "scored"
    /\ \E k \in 1..Len(collected_posts) - 1 :
          /\ collected_posts[k].north_sails_score
                 < collected_posts[k + 1].north_sails_score
          /\ \E i \in FetchedAt(collected_posts[k]) :
                \E j \in FetchedAt(collected_posts[k + 1]) : i + 1 < j

(* C33: in a Telegram scan a pause of 2 seconds separates every two
   consecutive channels: whenever a next channel has begun, the channel
   before it was followed by the pause, also when its fetch failed. *)
C33_PauseBetweenChannels ==
    scan.platform = "telegram" =>
        \A k \in 1..Len(scan.scanned) - 1 : scan.scanned[k].slept >= UnitPause

(* C34: a VK scan with batch_size b >= 1 processes every community of the
   roster once, in roster order; a pause of 30 seconds follows every b-th
   community that is not the last of the roster, whether or not communities
   of the batch failed, and no other pause is made: none inside a batch and
   none after the last batch. *)
C34_BatchesAndPauses ==
    (scan.platform = "vk" /\ scan.n = 1 /\ scan.pc \in {"units", "fetched"}) =>
        LET units == Len(scan.scanned) + Len(scan.roster)
        IN  /\ \A k \in 1..Len(scan.scanned) :
                  /\ scan.scanned[k].unit = Roster(units)[k]
                  /\ scan.scanned[k].slept =
                        IF k % scan.batch_size = 0 /\ k < units THEN BatchPause ELSE 0
            /\ scan.pc = "fetched" => scan.roster = <<>>

\* a roster of four communities was scanned in batches of three with a
\* failure in the first batch: one pause, after the third community
C34_Witness ==
    /\ scan.platform = "vk"
    /\ scan.pc = "fetched"
    /\ scan.batch_size = 3
    /\ Len(scan.scanned) = 4
    /\ scan.scanned[2].outcome = "raises"
    /\ scan.scanned[3].slept = BatchPause
    /\ scan.scanned[4].slept = 0

\* the check of the attempt before this one was denied (the frame still
\* holds its answer while the next check is due)
DeniedLastTime(c) ==
    /\ Frame(c).pc = "check"
    /\ Frame(c).attempt > 0
    /\ ~Frame(c).can_request

(* C35: with one caller and sleeps of exactly the requested time, the check
   that follows a denied check of the same call is permitted; hence a call
   with max_retries >= 2 that has returned or raised has invoked the
   operation at least once, and never returns None untried. *)
C35_NoTwoDenialsInARow ==
    /\ [][\A c \in Callers :
            (DeniedLastTime(c) /\ Frame(c)' # Frame(c)) =>
                (Frame(c)'.pc = "track" /\ Frame(c)'.can_request)]_vars
    /\ [](\A c \in Callers :
            (Frame(c).pc \in {"returned", "raised"} /\ Frame(c).max_retries >= 2) =>
                Frame(c).invocations # <<>>)

\* a call was denied for the quota, has slept the 60 seconds asked for, and
\* the check now due finds the window over and permits the call
C35_Witness ==
    \E c \in Callers :
        /\ DeniedLastTime(c)
        /\ Frame(c).wait_time = QuotaWaitMs
        /\ Frame(c).max_retries >= 2
        /\ request_count[Frame(c).func] = QuotaPerMinute
        /\ CheckResult(Frame(c).func).can_request

\* update_func is invoked in this step
Invokes == update'.calls = update.calls + 1

(* C36: safe_update_with_backup invokes update_func at most 4 times; the
   second, third and fourth invocation follow sleeps of 1, 2 and 4 seconds;
   an invocation that does not raise ends the call with its result, one that
   raises is caught, and after the fourth failure the call returns the value
   with success = False and the backup_id of the record made first. *)
C36_FourTriesThenBackupInfo ==
    /\ [](/\ update.calls <= 4
          /\ update.pc \in {"idle", "try", "retry", "done"}
          /\ update.pc = "retry" => update.calls \in 1..3
          /\ (update.pc = "done" /\ update.returned = "result") =>
                update.value \in {"response 200", "response 400"}
          /\ (update.pc = "done" /\ update.returned = "backup info") =>
                /\ update.calls = 4
                /\ ResultOf(update).keys = {"success", "backup_id", "error", "message"}
                /\ ResultOf(update).backup_id = backup_data[update.serial].backup_id)
    /\ [][Invokes =>
            /\ update.pc \in {"try", "retry"}
            /\ clock' - clock = CASE update.calls = 0 -> 0
                                  [] update.calls = 1 -> 1
                                  [] update.calls = 2 -> 2
                                  [] OTHER -> 4
            /\ update'.pc = "done" <=>
                  (update'.returned = "result" \/ update'.calls = 4)
            /\ update'.backup_id = update.backup_id]_vars

\* update_func has raised four times and the call has returned the backup
\* info, seven seconds after the backup was made
C36_Witness ==
    /\ update.pc = "done"
    /\ update.returned = "backup info"
    /\ update.calls = 4
    /\ \E k \in 1..Len(backup_data) :
          /\ backup_data[k].backup_id = update.backup_id
          /\ clock = backup_data[k].timestamp.second + 7

\* the sum of line 753 (931) for the i-th fetched message, in eighths, before
\* min(10, ...) is taken
Uncapped(i) ==
    2 * RelevanceOf(i).total_relevance
      + engagement_score(scan.platform,
                         TotalEngagement(scan.platform, all_raw_posts[i].engagement),
                         RelevanceOf(i))
      + 2 * priority_bonus(all_raw_posts[i].priority)
      + category_bonus(scan.platform, all_raw_posts[i].category)

(* C37: the final score of a post never exceeds 6.5 (52 eighths, 65 tenths
   when rounded): the sum before the cap is at most 6.5 for every fetched
   message, so min(10, ...) never binds; a scan with min_score above 6.5
   returns no post; and no returned post counts as a high-score post
   (score >= 8). *)
C37_ScoreCeiling ==
    /\ Discovered => \A i \in 1..Len(all_raw_posts) : Uncapped(i) <= 52
    /\ \A k \in 1..Len(collected_posts) :
          /\ collected_posts[k].final_score <= 52
          /\ collected_posts[k].north_sails_score <= 65
    /\ scan.min_score > 52 => collected_posts = <<>>
    /\ HighScorePosts(collected_posts) = 0

\* a post with total_relevance 10, engagement_score 10 and both bonuses 3 is
\* returned with the score 6.5 by a scan with min_score 6.5
C37_Witness ==
    /\ scan.pc = "scored"
    /\ scan.min_score = 52
    /\ \E k \in 1..Len(collected_posts) :
          /\ collected_posts[k].final_score = 52
          /\ collected_posts[k].brand_relevance = RelevanceCap
          /\ collected_posts[k].trend_score = 2 * EngagementCap

\* the posts of the output that were collected from a unit
CollectedFrom(id) == SelectSeq(collected_posts, LAMBDA p : p.source = id)

(* C38: the statistic written for a scanned unit reflects the posts collected
   from it: with at least one collected post it is the mean of their
   north_sails_score (for VK, of their total engagement), rounded to one
   decimal, and it is 0 only when the unit has no collected post. *)
C38_StatsReflectPosts ==
    \A w \in 1..Len(scan.writes) :
        LET posts == CollectedFrom(scan.writes[w].source)
            value(p) == IF scan.platform = "telegram"
                        THEN p.north_sails_score ELSE p.engagement
        IN  IF posts = <<>>
            THEN scan.writes[w].average = 0
            ELSE /\ scan.writes[w].average =
                       RoundMean(SumOf([k \in 1..Len(posts) |-> value(posts[k])],
                                       1, Len(posts)), Len(posts))
                 /\ scan.writes[w].average # 0

\* the local save of the record has succeeded and no later call has written
\* a file of the same backup_id: the file holds the record, whole
Kept(fs, entry) ==
    /\ entry.backup_id \in DOMAIN fs
    /\ fs[entry.backup_id].complete
    /\ fs[entry.backup_id].entry = entry

\* this step is a call of add_scan_result that produces the backup_id
Produces(id) ==
    /\ Len(backup_data') = Len(backup_data) + 1
    /\ Last(backup_data').backup_id = id

(* C39: backup round trip. A record whose local save succeeded stays in its
   file as long as no later call of add_scan_result produces the same
   backup_id; restore_backup of its backup_id then answers 200 with the
   timestamp, the scan type and the number of posts that were recorded, and
   list_backups lists the record with the same values. *)
C39_BackupRoundTrip ==
    [][\A k \in 1..Len(backup_data) :
          LET entry == backup_data[k] IN
          Kept(files, entry) =>
             /\ ~Produces(entry.backup_id) => Kept(files', entry)
             /\ (response' # response /\ response'.route = "restore_backup"
                   /\ response'.backup_id = entry.backup_id) =>
                   /\ response'.status = 200
                   /\ response'.body.backup_timestamp = entry.timestamp
                   /\ response'.body.scan_type = entry.scan_type
                   /\ response'.body.total_posts_in_backup = entry.total_posts
             /\ (response' # response /\ response'.route = "list_backups") =>
                   \E f \in DOMAIN response'.body :
                      /\ response'.body[f].backup_id = entry.backup_id
                      /\ response'.body[f].timestamp = entry.timestamp
                      /\ response'.body[f].scan_type = entry.scan_type
                      /\ response'.body[f].total_posts = entry.total_posts]_vars

\* the first of two records with different backup_ids has been retrieved
\* after the second was made, with the values recorded
C39_Witness ==
    /\ Len(backup_data) >= 2
    /\ backup_data[1].backup_id # backup_data[2].backup_id
    /\ Kept(files, backup_data[1])
    /\ response.route = "restore_backup"
    /\ response.backup_id = backup_data[1].backup_id
    /\ response.status = 200
    /\ response.body.backup_timestamp = backup_data[1].timestamp
    /\ response.body.total_posts_in_backup = backup_data[1].total_posts
    /\ backup_data[1].total_posts > 0

====
